---- MODULE Spec2Model ----
(***************************************************************************)
(* A model of the real-time session orchestrator of r-hat-live: the        *)
(* receive-side message handling (transcription accumulation, tool calls)  *)
(* of gemini_live_service_v2.py and gemini_bridge_client.py, and the       *)
(* session lifecycle with its capture queues and send / receive loops.     *)
(***************************************************************************)
EXTENDS Integers, Sequences, FiniteSets, TLC

VARIABLES
    impl,                           \* which session implementation runs: "v1", "v2", "bridge", "app"
    recvLog,                        \* the inbound messages handed to the handler so far
    current_input_transcription,    \* accumulator of USER text
    current_output_transcription,   \* accumulator of MODEL text
    emitted,                        \* the on_transcription(sender, text) calls made so far
    aiState,                        \* the last state passed to on_ai_state
    toolReplies,                    \* tool responses written to the connection
    handlerLog,                     \* on_highlight_object invocations and how each ended
    recvAlive,                      \* the receive loop has not been ended by an exception
    nextCallId,                     \* the id the remote agent gives its next function call
    audio_output_queue,             \* decoded audio chunks waiting for the playback worker
    running,                        \* self.running
    appPc,                          \* where the application thread is in start() / stop()
    input_stream,                   \* the microphone stream: "none", "open" or "closed"
    output_stream,                  \* the playback stream: "none", "open" or "closed"
    threadPc,                       \* the session thread: "none", "connecting", "loops", "ended"
    audioPc,                        \* the send-audio loop: "none", "poll", "sending", "done"
    videoPc,                        \* the send-video loop: "none", "poll", "sending", "done"
    recvPc,                         \* the receive loop: "none", "waiting", "sending", "done"
    workerPc,                       \* the playback worker: "none", "poll", "write", "done"
    audio_input_queue,              \* captured audio frames, by capture number
    video_frame_queue,              \* submitted video frames, by submission number
    nextAudio,                      \* the number of the next frame the microphone delivers
    nextVideo,                      \* the number of the next frame the application submits
    audioChunk,                     \* the frame the send-audio loop is writing
    videoFrame,                     \* the frame the send-video loop (or caller) is writing
    audioHanded,                    \* audio frames passed to a send call, in call order
    sentAudio,                      \* audio frames whose write completed, in completion order
    sentVideo,                      \* video frames whose write completed, in completion order
    lastPut,                        \* how the last send_video_frame call ended
    nInbound,                       \* messages the session has read from the connection
    app,                            \* the program that owns the tracker service: "desktop" or "api"
    trackers,                       \* TrackerService.trackers: tracker id -> TrackerInstance
    nextTrackerId,                  \* the id the next create_tracker call draws (ids are never reused)
    results,                        \* what the last update_trackers call returned
    primitive,                      \* what the tracker primitive answered, per id, in that call
    lastOp,                         \* the last tracker operation, its arguments and return value
    current_frame,                  \* RHatMainWindow.current_frame is set
    tracked_objects,                \* RHatMainWindow.tracked_objects
    statusLog,                      \* the on_status(message) calls made so far, by kind
    transportFailed,                \* a write, a read or the connect on the connection failed
    starts,                         \* start() calls that went past the running check
    orphanThreads,                  \* session threads of earlier starts that are still alive
    orphanWorkers,                  \* playback workers of earlier starts that are still alive
    turnPc,                         \* the handler inside a turn completion: "idle", "emit", "reset"
    startCalls,                     \* start() calls made on a session that was already running
    videoInterval                   \* the send interval since the last video write: "none", "running", "elapsed"

msgVars == <<impl, recvLog, current_input_transcription, current_output_transcription,
             emitted, aiState, toolReplies, handlerLog, recvAlive, nextCallId,
             audio_output_queue>>

sessVars == <<running, appPc, input_stream, output_stream, threadPc, audioPc, videoPc,
              recvPc, workerPc, audio_input_queue, video_frame_queue, nextAudio, nextVideo,
              audioChunk, videoFrame, audioHanded, sentAudio, sentVideo, lastPut, nInbound>>

sessVarsButRecv == <<running, appPc, input_stream, output_stream, threadPc, audioPc,
                     videoPc, workerPc, audio_input_queue, video_frame_queue, nextAudio,
                     nextVideo, audioChunk, videoFrame, audioHanded, sentAudio, sentVideo,
                     lastPut, nInbound>>

trackVars == <<app, trackers, nextTrackerId, results, primitive, lastOp, current_frame,
               tracked_objects>>

noteVars == <<statusLog, transportFailed>>

lifeVars == <<starts, orphanThreads, orphanWorkers>>

stepVars == <<turnPc, startCalls, videoInterval>>

vars == <<msgVars, sessVars, trackVars, noteVars, lifeVars, stepVars>>

----------------------------------------------------------------------------
(* Bounds of the model *)

\* how many inbound messages the remote agent sends in one behaviour
MaxMsgs == 3

\* how many of them are tool-call events
MaxToolEvents == 1

\* how many audio frames the microphone delivers in one behaviour
MaxAudioFrames == 2

\* how many video frames the application submits in one behaviour
MaxVideoFrames == 3

\* how many messages the remote agent sends during a session's life
MaxInbound == 1

\* start() calls on one session object
MaxStarts == 2

----------------------------------------------------------------------------
(* Text: a string is a sequence of characters *)

Whitespace == {" "}

\* the incremental transcription texts the remote agent sends
Texts == { <<"H", "i">>, <<" ", "t">>, <<" ">> }

RECURSIVE LStrip(_)
LStrip(s) == IF s = <<>> THEN s
             ELSE IF Head(s) \in Whitespace THEN LStrip(Tail(s)) ELSE s

RECURSIVE RStrip(_)
RStrip(s) == IF s = <<>> THEN s
             ELSE IF s[Len(s)] \in Whitespace THEN RStrip(SubSeq(s, 1, Len(s) - 1)) ELSE s

\* str.strip()
Strip(s) == RStrip(LStrip(s))

\* truth value of a Python string: non-empty
Truthy(s) == Len(s) > 0

\* an optional value: <<>> is None, <<v>> is v
None == <<>>
Some(v) == <<v>>
IsSome(o) == Len(o) = 1
Get(o) == o[1]

----------------------------------------------------------------------------
(* Inbound messages *)

ToolNames == {"highlightObject", "otherTool"}

\* one function call of a tool-call event
FunctionCall(id, name) == [id |-> id, name |-> name]

\* the function-call lists a tool-call event carries, ids counted from n
CallLists(n) ==
    { <<FunctionCall(n, a)>> : a \in ToolNames }
    \cup { <<FunctionCall(n, "highlightObject"), FunctionCall(n + 1, "highlightObject")>> }

\* a LiveServerMessage of the Gemini Live API as _handle_response reads it:
\* tool_call.function_calls, and server_content's output_transcription,
\* input_transcription, turn_complete and model_turn ("none", "empty": a model
\* turn without audio parts, "audio": a model turn with one audio/pcm part)
Response(calls, out, inp, tc, mt) ==
    [tool_call |-> calls, output_transcription |-> out, input_transcription |-> inp,
     turn_complete |-> tc, model_turn |-> mt]

V2Responses(n) ==
    { Response(c, None, None, FALSE, "none") : c \in CallLists(n) }
    \cup { Response(<<>>, None, Some(t), FALSE, "none") : t \in Texts }
    \cup { Response(<<>>, Some(t), None, FALSE, "none") : t \in Texts }
    \cup { Response(<<>>, Some(<<"H", "i">>), None, TRUE, "none") }
    \cup { Response(<<>>, None, None, TRUE, "none") }
    \cup { Response(<<>>, None, None, FALSE, mt) : mt \in {"empty", "audio"} }

\* a message of the bridge protocol: {type, ...payload}; missing names what
\* the sender left out or sent as null ("body": the text is not JSON at all)
BridgeMsg(type, sender, text, state, tool, callId) ==
    [type |-> type, sender |-> sender, text |-> text, state |-> state, tool |-> tool,
     callId |-> callId, missing |-> {}]

Without(message, fields) == [message EXCEPT !.missing = fields]

\* messages that break the protocol: a body that does not decode, a type the
\* client does not know, a transcription without text, a tool call without args
MalformedMessages(n) ==
    { Without(BridgeMsg("", "", <<>>, "", "", 0), {"body"}),
      BridgeMsg("UNKNOWN", "", <<>>, "", "", 0),
      Without(BridgeMsg("TRANSCRIPTION", "USER", <<>>, "", "", 0), {"text"}),
      Without(BridgeMsg("TOOL_CALL", "", <<>>, "", "highlightObject", n), {"args"}) }

BridgeMessages(n) ==
    { BridgeMsg("TRANSCRIPTION", s, t, "", "", 0) : s \in {"USER", "MODEL"}, t \in Texts }
    \cup { BridgeMsg("TURN_COMPLETE", "", <<>>, "", "", 0) }
    \cup { BridgeMsg("STATUS", "", <<>>, "connected", "", 0) }
    \cup { BridgeMsg("AI_STATE", "", <<>>, "speaking", "", 0) }
    \cup { BridgeMsg(ty, "", <<>>, "", "", 0) : ty \in {"ERROR", "AUDIO_OUTPUT"} }
    \cup { BridgeMsg("TOOL_CALL", "", <<>>, "", a, n) : a \in ToolNames }
    \cup MalformedMessages(n)

IsToolEvent(m) ==
    IF impl = "bridge" THEN m.type = "TOOL_CALL" ELSE m.tool_call # <<>>

\* the tool-call events among the messages received so far
ToolEvents(log) == Cardinality({ i \in DOMAIN log : IsToolEvent(log[i]) })

\* the messages the remote agent may send next
Sendable(msgs) ==
    IF ToolEvents(recvLog) < MaxToolEvents THEN msgs
    ELSE { m \in msgs : ~IsToolEvent(m) }

\* what the environment decides for one highlight call: whether the handler
\* raises, and whether the first and the second write of a response succeed
ToolOutcomes == [handlerRaises : BOOLEAN, send1ok : BOOLEAN, send2ok : BOOLEAN]

----------------------------------------------------------------------------
(* gemini_live_service_v2.py: GeminiLiveSession._handle_response *)

\* the handler's view of the session while it runs
HandlerState ==
    [inp |-> current_input_transcription, out |-> current_output_transcription,
     emitted |-> emitted, aiState |-> aiState, replies |-> toolReplies,
     hlog |-> handlerLog, queue |-> audio_output_queue, statuses |-> statusLog,
     raised |-> FALSE]

ToolResponse(id, result) == [callId |-> id, result |-> result]

\* the record of one on_highlight_object invocation: the call's id and what the
\* environment decided for it
Invocation(id, o) ==
    [id |-> id, raised |-> o.handlerRaises, send1ok |-> o.send1ok, send2ok |-> o.send2ok]

\* one highlightObject call: the callback, the success response, and the error
\* response of the except branch; raised = an exception leaves the for loop
HighlightCall(st, fc, o) ==
    LET st1 == [st EXCEPT !.hlog = Append(@, Invocation(fc.id, o))]
        err == IF o.send2ok
               THEN [st1 EXCEPT !.replies = Append(@, ToolResponse(fc.id, "error"))]
               ELSE [st1 EXCEPT !.raised = TRUE]
    IN  IF o.handlerRaises THEN err
        ELSE IF o.send1ok
             THEN [st1 EXCEPT !.replies = Append(@, ToolResponse(fc.id, "success"))]
             ELSE err

\* for fc in response.tool_call.function_calls: only highlightObject is handled
RECURSIVE RunToolCalls(_, _, _)
RunToolCalls(st, calls, outs) ==
    IF calls = <<>> \/ st.raised THEN st
    ELSE IF Head(calls).name = "highlightObject"
         THEN RunToolCalls(HighlightCall(st, Head(calls), Head(outs)), Tail(calls), Tail(outs))
         ELSE RunToolCalls(st, Tail(calls), Tail(outs))

\* if response.tool_call: using_tool, the calls, the settle delay, listening
ToolCallPart(st, response, outs) ==
    IF response.tool_call = <<>> THEN st
    ELSE LET st1 == RunToolCalls([st EXCEPT !.aiState = "using_tool"], response.tool_call, outs)
         IN  IF st1.raised THEN st1 ELSE [st1 EXCEPT !.aiState = "listening"]

\* the new text put in front of the accumulated text
AccumulatePrepend(acc, text) == text \o acc

\* self.current_output_transcription += text (and the same for input)
Accumulate(acc, text) == acc \o text

\* if content.output_transcription / if content.input_transcription
TranscriptionPart(st, response) ==
    LET st1 == IF IsSome(response.output_transcription)
               THEN [st EXCEPT !.out = Accumulate(@, Get(response.output_transcription)),
                               !.aiState = "speaking"]
               ELSE st
    IN  IF IsSome(response.input_transcription)
        THEN [st1 EXCEPT !.inp = Accumulate(@, Get(response.input_transcription)),
                         !.aiState = "listening"]
        ELSE st1

\* the test that lets an accumulator be emitted: if acc.strip()
Emittable(acc) == Truthy(Strip(acc))

\* the on_transcription calls of one turn completion, USER first
TurnEmissions(inp, out) ==
    (IF Emittable(inp) THEN << <<"USER", inp>> >> ELSE <<>>)
    \o (IF Emittable(out) THEN << <<"MODEL", out>> >> ELSE <<>>)

\* if content.turn_complete: emit, reset both accumulators, settle, listening
TurnCompletePart(st) ==
    [st EXCEPT !.emitted = @ \o TurnEmissions(st.inp, st.out),
               !.inp = <<>>, !.out = <<>>, !.aiState = "listening"]

\* model_turn: processing without output transcription; speaking and queueing
\* of each audio/pcm part
ModelTurnPart(st, response) ==
    LET st1 == IF response.model_turn # "none" /\ ~IsSome(response.output_transcription)
               THEN [st EXCEPT !.aiState = "processing"] ELSE st
    IN  IF response.model_turn = "audio"
        THEN [st1 EXCEPT !.aiState = "speaking", !.queue = Append(@, "pcm")]
        ELSE st1

\* the whole of _handle_response; an exception raised in the tool part is
\* caught by the outer try and skips the rest of the handler
HandleResponseResult(st, response, outs) ==
    LET st1 == ToolCallPart(st, response, outs)
        st2 == TranscriptionPart(st1, response)
        st3 == IF response.turn_complete THEN TurnCompletePart(st2) ELSE st2
    IN  IF st1.raised THEN st1 ELSE ModelTurnPart(st3, response)

\* the environment's outcomes for the calls of one tool-call event
OutcomeLists(calls) == [1..Len(calls) -> ToolOutcomes]

\* async for response in session.receive(): await self._handle_response(...)
HandleResponse ==
    /\ impl = "v2"
    /\ recvAlive
    /\ Len(recvLog) < MaxMsgs
    /\ \E response \in Sendable(V2Responses(nextCallId)) :
       \E outs \in OutcomeLists(response.tool_call) :
          LET st == HandleResponseResult(HandlerState, response, outs) IN
          /\ recvLog' = Append(recvLog, response)
          /\ current_input_transcription' = st.inp
          /\ current_output_transcription' = st.out
          /\ emitted' = st.emitted
          /\ aiState' = st.aiState
          /\ toolReplies' = st.replies
          /\ handlerLog' = st.hlog
          /\ audio_output_queue' = st.queue
          /\ statusLog' = st.statuses
          /\ nextCallId' = nextCallId + Len(response.tool_call)
          \* every exception is caught inside _handle_response
          /\ recvAlive' = recvAlive
    /\ UNCHANGED <<impl, sessVars>>
    /\ UNCHANGED <<trackVars, lifeVars, transportFailed>>
    /\ UNCHANGED stepVars

----------------------------------------------------------------------------
(* gemini_bridge_client.py: GeminiBridgeClient._handle_message *)

\* asyncio.run() raises RuntimeError when the calling thread already runs an
\* event loop, before the coroutine it was given starts
AsyncioRunRaises(inEventLoop) == inEventLoop

\* send_tool_response: asyncio.run(self._send_message('TOOL_RESPONSE', ...));
\* _send_message itself swallows a failed ws.send
SendToolResponse(st, id, result, inEventLoop, sendOk) ==
    IF AsyncioRunRaises(inEventLoop) THEN [st EXCEPT !.raised = TRUE]
    ELSE IF sendOk THEN [st EXCEPT !.replies = Append(@, ToolResponse(id, result))]
    ELSE st

\* elif msg_type == 'TOOL_CALL': the handler runs inside the receive task
BridgeToolCall(st, message, o) ==
    IF message.tool # "highlightObject" THEN st
    \* object_name = args.get('object_name') with args None: AttributeError
    ELSE IF "args" \in message.missing THEN [st EXCEPT !.raised = TRUE]
    ELSE LET st1 == [st EXCEPT !.hlog = Append(@, Invocation(message.callId, o))]
             ok  == SendToolResponse(st1, message.callId, "success", TRUE, o.send1ok)
         IN  IF ~o.handlerRaises /\ ~ok.raised THEN ok
             ELSE SendToolResponse(st1, message.callId, "error", TRUE, o.send2ok)

HandleMessageResult(st, message, o) ==
    CASE message.type = "STATUS" ->
            IF message.state = "connected"
            THEN [st EXCEPT !.statuses = Append(@, "connected"), !.aiState = "listening"]
            ELSE st
      [] message.type = "ERROR" -> [st EXCEPT !.statuses = Append(@, "error")]
      [] message.type = "TRANSCRIPTION" ->
            IF message.sender \notin {"USER", "MODEL"} THEN st
            \* self.current_..._transcription += None: TypeError
            ELSE IF "text" \in message.missing THEN [st EXCEPT !.raised = TRUE]
            ELSE IF message.sender = "USER"
                 THEN [st EXCEPT !.inp = Accumulate(@, message.text)]
                 ELSE [st EXCEPT !.out = Accumulate(@, message.text)]
      [] message.type = "TURN_COMPLETE" ->
            [st EXCEPT !.emitted = @ \o TurnEmissions(st.inp, st.out),
                       !.inp = <<>>, !.out = <<>>]
      [] message.type = "AI_STATE" -> [st EXCEPT !.aiState = message.state]
      [] message.type = "TOOL_CALL" -> BridgeToolCall(st, message, o)
      [] message.type = "AUDIO_OUTPUT" -> [st EXCEPT !.queue = Append(@, "pcm")]
      [] OTHER -> st

\* json.loads(message) raises on a body that is not JSON, before the handler
JsonLoadsRaises(message) == "body" \in message.missing

ReceiveResult(st, message, o) ==
    IF JsonLoadsRaises(message) THEN [st EXCEPT !.raised = TRUE]
    ELSE HandleMessageResult(st, message, o)

\* _receive_loop: message = await wait_for(websocket.recv()); await
\* self._handle_message(json.loads(message)); only TimeoutError and
\* ConnectionClosed are caught there
HandleMessage ==
    /\ impl = "bridge"
    /\ recvAlive
    /\ Len(recvLog) < MaxMsgs
    /\ \E message \in Sendable(BridgeMessages(nextCallId)) :
       \E o \in ToolOutcomes :
          LET st == ReceiveResult(HandlerState, message, o) IN
          /\ recvLog' = Append(recvLog, message)
          /\ current_input_transcription' = st.inp
          /\ current_output_transcription' = st.out
          /\ emitted' = st.emitted
          /\ aiState' = st.aiState
          /\ toolReplies' = st.replies
          /\ handlerLog' = st.hlog
          /\ audio_output_queue' = st.queue
          /\ statusLog' = st.statuses
          /\ nextCallId' = IF message.type = "TOOL_CALL" THEN nextCallId + 1 ELSE nextCallId
          /\ recvAlive' = ~st.raised
    /\ UNCHANGED <<impl, sessVars>>
    /\ UNCHANGED <<trackVars, lifeVars, transportFailed>>
    /\ UNCHANGED stepVars

----------------------------------------------------------------------------
(* The receive side of a connected session, message by message *)

\* the session object after construction (__init__)
\* no tracker operation has run yet
NoArgs == [object_name |-> "", frame |-> FALSE, detections |-> 0, matched |-> FALSE,
           score |-> 0]

Op(op, id, ret, args) == [op |-> op, id |-> id, ret |-> ret, args |-> args]

EmptyMap == [id \in {} |-> 0]

\* TrackerService() and the fields RHatMainWindow.__init__ sets
TrackConstructed ==
    /\ trackers = EmptyMap
    /\ nextTrackerId = 1
    /\ results = EmptyMap
    /\ primitive = EmptyMap
    /\ lastOp = Op("none", 0, "none", NoArgs)
    /\ current_frame = FALSE
    /\ tracked_objects = <<>>

Constructed ==
    /\ running = FALSE
    /\ appPc = "idle"
    /\ input_stream = "none"
    /\ output_stream = "none"
    /\ threadPc = "none"
    /\ audioPc = "none"
    /\ videoPc = "none"
    /\ recvPc = "none"
    /\ workerPc = "none"
    /\ audio_input_queue = <<>>
    /\ video_frame_queue = <<>>
    /\ nextAudio = 1
    /\ nextVideo = 1
    /\ audioChunk = 0
    /\ videoFrame = 0
    /\ audioHanded = <<>>
    /\ sentAudio = <<>>
    /\ sentVideo = <<>>
    /\ lastPut = "none"
    /\ nInbound = 0
    /\ statusLog = <<>>
    /\ transportFailed = FALSE
    /\ starts = 0
    /\ orphanThreads = 0
    /\ orphanWorkers = 0
    /\ turnPc = "idle"
    /\ startCalls = 0
    /\ videoInterval = "none"

InitMsg ==
    /\ Constructed
    /\ TrackConstructed
    /\ app = "desktop"
    /\ impl \in {"v2", "bridge"}
    /\ recvLog = <<>>
    /\ current_input_transcription = <<>>
    /\ current_output_transcription = <<>>
    /\ emitted = <<>>
    /\ aiState = IF impl = "v2" THEN "listening" ELSE "idle"
    /\ toolReplies = <<>>
    /\ handlerLog = <<>>
    /\ recvAlive = TRUE
    /\ nextCallId = 1
    /\ audio_output_queue = <<>>

NextMsg == HandleResponse \/ HandleMessage

SpecMsg == InitMsg /\ [][NextMsg]_vars

----------------------------------------------------------------------------
(* r_hat_app.py: GeminiSession.receive_audio, the receive side of the desktop
   application's own session *)

\* a function call handed to the main thread: nothing is written for it
Dispatched == [handlerRaises |-> FALSE, send1ok |-> TRUE, send2ok |-> TRUE]

\* for func_call in response.tool_call.function_calls:
\*     self.function_called.emit(func_call.name, dict(func_call.args))
RECURSIVE EmitFunctionCalls(_, _)
EmitFunctionCalls(hlog, calls) ==
    IF calls = <<>> THEN hlog
    ELSE EmitFunctionCalls(Append(hlog, Invocation(Head(calls).id, Dispatched)), Tail(calls))

\* async for response in turn: audio data is queued for playback, each function
\* call is emitted to the main thread whatever its name and no tool response
\* is sent, a completed turn is reported as status "Listening"
ReceiveAudio ==
    /\ impl = "app"
    /\ recvAlive
    /\ Len(recvLog) < MaxMsgs
    /\ \E response \in Sendable(V2Responses(nextCallId)) :
          /\ recvLog' = Append(recvLog, response)
          /\ audio_output_queue' = IF response.model_turn = "audio"
                                   THEN Append(audio_output_queue, "pcm")
                                   ELSE audio_output_queue
          /\ handlerLog' = EmitFunctionCalls(handlerLog, response.tool_call)
          /\ nextCallId' = nextCallId + Len(response.tool_call)
          /\ statusLog' = IF response.turn_complete THEN Append(statusLog, "listening")
                          ELSE statusLog
    /\ UNCHANGED <<impl, current_input_transcription, current_output_transcription, emitted,
                   aiState, toolReplies, recvAlive, sessVars>>
    /\ UNCHANGED <<trackVars, lifeVars, transportFailed>>
    /\ UNCHANGED stepVars

InitApp ==
    /\ Constructed
    /\ TrackConstructed
    /\ app = "desktop"
    /\ impl = "app"
    /\ recvLog = <<>>
    /\ current_input_transcription = <<>>
    /\ current_output_transcription = <<>>
    /\ emitted = <<>>
    /\ aiState = "idle"
    /\ toolReplies = <<>>
    /\ handlerLog = <<>>
    /\ recvAlive = TRUE
    /\ nextCallId = 1
    /\ audio_output_queue = <<>>

NextApp == ReceiveAudio

SpecApp == InitApp /\ [][NextApp]_vars

----------------------------------------------------------------------------
(* A turn completion statement by statement: the on_transcription calls, then
   the reset of the accumulators *)

\* the receive loop handing over every message at once
HandlerNotAwaited == TRUE

\* async for response in session.receive(): await self._handle_response(...),
\* and await self._handle_message(json.loads(message)) in the bridge client:
\* the loop takes the next message only when the handler has returned
HandlerAwaited == turnPc = "idle"

\* the messages that carry transcription text or complete a turn
TurnMessages(n) ==
    IF impl = "v2"
    THEN { m \in V2Responses(n) : m.tool_call = <<>> }
    ELSE { m \in BridgeMessages(n) :
              m.type \in {"TRANSCRIPTION", "TURN_COMPLETE"} /\ m.missing = {} }

\* the handler up to 'if content.turn_complete' / 'elif msg_type == TURN_COMPLETE'
BeforeTurnComplete(st, m) ==
    IF impl = "v2"
    THEN (IF m.turn_complete THEN TranscriptionPart(st, m)
          ELSE ModelTurnPart(TranscriptionPart(st, m), m))
    ELSE (IF m.type = "TURN_COMPLETE" THEN st
          ELSE HandleMessageResult(st, m, [handlerRaises |-> FALSE, send1ok |-> TRUE,
                                           send2ok |-> TRUE]))

\* the loop takes a message; the handler runs up to the turn completion
TurnReceive ==
    /\ impl \in {"v2", "bridge"}
    /\ recvAlive
    /\ HandlerAwaited
    /\ Len(recvLog) < MaxMsgs
    /\ \E m \in TurnMessages(nextCallId) :
          LET st == BeforeTurnComplete(HandlerState, m)
              tc == IF impl = "v2" THEN m.turn_complete ELSE m.type = "TURN_COMPLETE"
          IN  /\ tc => turnPc = "idle"
              /\ recvLog' = Append(recvLog, m)
              /\ current_input_transcription' = st.inp
              /\ current_output_transcription' = st.out
              /\ aiState' = st.aiState
              /\ audio_output_queue' = st.queue
              /\ turnPc' = IF tc THEN "emit" ELSE turnPc
    /\ UNCHANGED <<impl, emitted, toolReplies, handlerLog, recvAlive, nextCallId, sessVars>>
    /\ UNCHANGED <<trackVars, noteVars, lifeVars, startCalls, videoInterval>>

\* if acc.strip(): self.on_transcription(sender, acc), USER then MODEL
TurnEmit ==
    /\ turnPc = "emit"
    /\ emitted' = emitted \o TurnEmissions(current_input_transcription,
                                           current_output_transcription)
    /\ turnPc' = "reset"
    /\ UNCHANGED <<impl, recvLog, current_input_transcription, current_output_transcription,
                   aiState, toolReplies, handlerLog, recvAlive, nextCallId,
                   audio_output_queue, sessVars>>
    /\ UNCHANGED <<trackVars, noteVars, lifeVars, startCalls, videoInterval>>

\* self.current_input_transcription = ""; self.current_output_transcription = "";
\* v2 then settles and notifies listening. The turn-completing messages of
\* V2Responses carry no model turn
TurnReset ==
    /\ turnPc = "reset"
    /\ current_input_transcription' = <<>>
    /\ current_output_transcription' = <<>>
    /\ aiState' = IF impl = "v2" THEN "listening" ELSE aiState
    /\ turnPc' = "idle"
    /\ UNCHANGED <<impl, recvLog, emitted, toolReplies, handlerLog, recvAlive, nextCallId,
                   audio_output_queue, sessVars>>
    /\ UNCHANGED <<trackVars, noteVars, lifeVars, startCalls, videoInterval>>

NextTurn == TurnReceive \/ TurnEmit \/ TurnReset

SpecTurn == InitMsg /\ [][NextTurn]_vars

----------------------------------------------------------------------------
(* What the inbound stream says, read off the log alone *)

UserText(m) ==
    IF impl = "v2"
    THEN (IF IsSome(m.input_transcription) THEN Get(m.input_transcription) ELSE <<>>)
    ELSE (IF m.type = "TRANSCRIPTION" /\ m.sender = "USER" THEN m.text ELSE <<>>)

ModelText(m) ==
    IF impl = "v2"
    THEN (IF IsSome(m.output_transcription) THEN Get(m.output_transcription) ELSE <<>>)
    ELSE (IF m.type = "TRANSCRIPTION" /\ m.sender = "MODEL" THEN m.text ELSE <<>>)

IsTurnComplete(m) ==
    IF impl = "v2" THEN m.turn_complete ELSE m.type = "TURN_COMPLETE"

NonBlank(s) == \E i \in DOMAIN s : s[i] \notin Whitespace

\* is an accumulator due for emission: by not being the empty string, or by
\* holding a character that is not whitespace
Due(acc, byEmptiness) == IF byEmptiness THEN acc # <<>> ELSE NonBlank(acc)

\* the utterances due after the log, and the text pending since the last
\* turn completion
RECURSIVE Replay(_, _, _)
Replay(log, r, byEmptiness) ==
    IF log = <<>> THEN r
    ELSE LET m == Head(log)
             u == r.user \o UserText(m)
             o == r.model \o ModelText(m)
             due == (IF Due(u, byEmptiness) THEN << <<"USER", u>> >> ELSE <<>>)
                    \o (IF Due(o, byEmptiness) THEN << <<"MODEL", o>> >> ELSE <<>>)
         IN  IF IsTurnComplete(m)
             THEN Replay(Tail(log), [user |-> <<>>, model |-> <<>>,
                                     utterances |-> r.utterances \o due], byEmptiness)
             ELSE Replay(Tail(log), [r EXCEPT !.user = u, !.model = o], byEmptiness)

Expected(byEmptiness) ==
    Replay(recvLog, [user |-> <<>>, model |-> <<>>, utterances |-> <<>>], byEmptiness)

AccumulatorsEmptyAfterTurn ==
    (recvLog # <<>> /\ IsTurnComplete(recvLog[Len(recvLog)]))
        => (current_input_transcription = <<>> /\ current_output_transcription = <<>>)

\* C1 as stated: after any sequence of TRANSCRIPTION and TURN_COMPLETE messages
\* the on_transcription calls made are exactly, per turn completion and in
\* order, one call for each accumulator that is not the empty string, carrying
\* the concatenation in arrival order of that sender's texts since the previous
\* turn completion, and both accumulators are empty after a turn completion.
C1_EmitsEveryNonEmptyAccumulator ==
    /\ emitted = Expected(TRUE).utterances
    /\ current_input_transcription = Expected(TRUE).user
    /\ current_output_transcription = Expected(TRUE).model
    /\ AccumulatorsEmptyAfterTurn

\* C1 amended: the same, with one call for each accumulator that holds at
\* least one non-whitespace character (a whitespace-only accumulator is reset
\* without a call).
C1_EmitsEveryNonBlankAccumulator ==
    /\ emitted = Expected(FALSE).utterances
    /\ current_input_transcription = Expected(FALSE).user
    /\ current_output_transcription = Expected(FALSE).model
    /\ AccumulatorsEmptyAfterTurn

\* USER 'Hi', USER ' t', TURN_COMPLETE has been handled and emitted one utterance
C1_Witness ==
    /\ Len(recvLog) = 3
    /\ UserText(recvLog[1]) = <<"H", "i">>
    /\ UserText(recvLog[2]) = <<" ", "t">>
    /\ IsTurnComplete(recvLog[3])
    /\ emitted = << <<"USER", <<"H", "i", " ", "t">> >> >>
    /\ current_input_transcription = <<>>
    /\ current_output_transcription = <<>>

\* the function calls received so far
ReceivedCalls ==
    IF impl = "v2"
    THEN UNION { { recvLog[i].tool_call[j].id : j \in DOMAIN recvLog[i].tool_call } :
                 i \in DOMAIN recvLog }
    ELSE { recvLog[i].callId : i \in { k \in DOMAIN recvLog : recvLog[k].type = "TOOL_CALL" } }

RepliesTo(id) == { j \in DOMAIN toolReplies : toolReplies[j].callId = id }

\* the connection refused a write made for some call
WriteRefused ==
    \E k \in DOMAIN handlerLog : ~handlerLog[k].send1ok \/ ~handlerLog[k].send2ok

\* C2 as stated: every function call received (whatever its tool name, whether
\* the highlight handler returns or raises) has, once its event is handled,
\* exactly one tool response with its id on the connection (the connection
\* refusing no write).
C2_EveryCallAnsweredOnce ==
    ~WriteRefused => \A id \in ReceivedCalls : Cardinality(RepliesTo(id)) = 1

\* C3 as stated: a tool call whose handler raised is answered with an error
\* text response carrying its id (the connection refusing no write), and no
\* exception leaves the tool-call handling: the receive loop keeps running.
C3_ToolFailureBecomesErrorReply ==
    \A k \in DOMAIN handlerLog :
        (handlerLog[k].raised /\ ~WriteRefused)
            => /\ recvAlive
               /\ \E j \in RepliesTo(handlerLog[k].id) : toolReplies[j].result = "error"

----------------------------------------------------------------------------
(* queue.Queue *)

\* queue.Queue(maxsize=2) of video frames; queue.Queue() (maxsize 0: unbounded)
\* of audio frames
VideoQueueMaxsize == 2
AudioQueueMaxsize == 0

\* a put for which maxsize 0 is a capacity of no item
QueuePutNoRoom(q, item, maxsize, block) ==
    IF Len(q) < maxsize
    THEN [q |-> Append(q, item), result |-> "queued"]
    ELSE [q |-> q, result |-> IF block THEN "blocked" ELSE "full"]

\* Queue.put(item, block): "queued", or on a full queue "full" (queue.Full is
\* raised) without block and "blocked" (the caller waits) with it
QueuePut(q, item, maxsize, block) ==
    IF maxsize = 0 \/ Len(q) < maxsize
    THEN [q |-> Append(q, item), result |-> "queued"]
    ELSE [q |-> q, result |-> IF block THEN "blocked" ELSE "full"]

\* Queue.put(item)
Put(q, item, maxsize) == QueuePut(q, item, maxsize, TRUE)

\* a put_nowait that waits for room instead
PutNowaitWaits(q, item, maxsize) == QueuePut(q, item, maxsize, TRUE)

\* a put that evicts the oldest resident item of a full queue
PutDropOldest(q, item, maxsize) ==
    IF maxsize = 0 \/ Len(q) < maxsize
    THEN [q |-> Append(q, item), result |-> "queued"]
    ELSE [q |-> Append(Tail(q), item), result |-> "full"]

\* Queue.put_nowait(item)
PutNowait(q, item, maxsize) == QueuePut(q, item, maxsize, FALSE)

\* a get that takes the newest item
GetNewest(q) == [item |-> q[Len(q)], q |-> SubSeq(q, 1, Len(q) - 1)]

\* Queue.get_nowait() / Queue.get(timeout) on a queue that holds an item
GetOldest(q) == [item |-> Head(q), q |-> Tail(q)]

----------------------------------------------------------------------------
(* The session: start(), stop(), the capture callback, the playback worker and
   the session thread with its send-audio, send-video and receive loops *)

HasVideoQueue == impl \in {"v1", "v2"}

\* start() reporting nothing
StartStatusesNone(inOk) == <<>>

\* the on_status calls of start(): v1 and v2 report the initialisation, a
\* microphone that failed to open, and "Connected!"; the bridge client reports
\* that it is connecting. A playback device that failed to open is only printed
StartStatuses(inOk) ==
    IF HasVideoQueue
    THEN <<"initializing">> \o (IF inOk THEN <<>> ELSE <<"microphone_error">>)
                            \o <<"connected">>
    ELSE <<"connecting">>

\* a thread that start() created earlier and that has not returned
ThreadAlive == threadPc \in {"connecting", "loops"}
WorkerAlive == workerPc \in {"poll", "write"}

\* the body of start() past 'if self.running: return': running, both audio
\* streams (either may fail to open, which leaves the attribute as it was), a
\* new playback worker, a new session thread. Nothing waits for the threads of
\* an earlier start: those that are still alive go on beside the new ones
StartBody ==
    /\ running' = TRUE
    /\ \E inOk \in BOOLEAN, outOk \in BOOLEAN :
          /\ input_stream' = IF inOk THEN "open" ELSE input_stream
          /\ output_stream' = IF outOk THEN "open" ELSE output_stream
          /\ workerPc' = IF outOk THEN "poll" ELSE workerPc
          /\ orphanWorkers' = IF outOk /\ WorkerAlive THEN orphanWorkers + 1
                              ELSE orphanWorkers
          /\ statusLog' = statusLog \o StartStatuses(inOk)
    /\ orphanThreads' = IF ThreadAlive THEN orphanThreads + 1 ELSE orphanThreads
    /\ threadPc' = "connecting"
    /\ audioPc' = "none"
    /\ videoPc' = "none"
    /\ recvPc' = "none"
    /\ audioChunk' = 0
    /\ videoFrame' = 0
    /\ aiState' = IF HasVideoQueue THEN "listening" ELSE aiState
    /\ starts' = starts + 1
    /\ appPc' = "started"
    /\ UNCHANGED <<impl, recvLog, current_input_transcription, current_output_transcription,
                   emitted, toolReplies, handlerLog, recvAlive, nextCallId,
                   audio_output_queue, audio_input_queue, video_frame_queue, nextAudio,
                   nextVideo, audioHanded, sentAudio, sentVideo, lastPut, nInbound,
                   transportFailed>>
    /\ UNCHANGED trackVars

\* start() finding the flag clear whatever it is
NeverRunning == FALSE

\* if self.running: return
AlreadyRunning == running

\* start() on a session that is not running
StartSession ==
    /\ ~AlreadyRunning
    /\ StartBody
    /\ UNCHANGED stepVars

\* start() called again on a session the application has started and not
\* stopped
StartAgain ==
    /\ appPc = "started"
    /\ startCalls < MaxStarts
    /\ startCalls' = startCalls + 1
    /\ IF AlreadyRunning
       THEN UNCHANGED <<msgVars, sessVars, trackVars, noteVars, lifeVars>>
       ELSE StartBody
    /\ UNCHANGED <<turnPc, videoInterval>>

\* the first start() on a constructed session
Start ==
    /\ appPc = "idle"
    /\ StartSession

\* the session thread: connect, then gather the loops; a refused connection
\* ends the thread
Connect ==
    /\ threadPc = "connecting"
    /\ \E ok \in BOOLEAN :
          IF ok
          THEN /\ threadPc' = "loops"
               /\ audioPc' = "poll"
               /\ videoPc' = IF HasVideoQueue THEN "poll" ELSE "none"
               /\ recvPc' = "waiting"
               /\ UNCHANGED noteVars
          ELSE /\ threadPc' = "ended"
               /\ statusLog' = Append(statusLog, "error")
               /\ transportFailed' = TRUE
               /\ UNCHANGED <<audioPc, videoPc, recvPc>>
    /\ UNCHANGED <<msgVars, running, appPc, input_stream, output_stream, workerPc,
                   audio_input_queue, video_frame_queue, nextAudio, nextVideo, audioChunk,
                   videoFrame, audioHanded, sentAudio, sentVideo, lastPut, nInbound>>
    /\ UNCHANGED <<trackVars, lifeVars>>
    /\ UNCHANGED stepVars

\* asyncio.gather returns when the loops have returned; the connection closes
ThreadEnd ==
    /\ threadPc = "loops"
    /\ audioPc = "done"
    /\ videoPc \in {"done", "none"}
    /\ recvPc = "done"
    /\ threadPc' = "ended"
    /\ UNCHANGED <<msgVars, running, appPc, input_stream, output_stream, audioPc, videoPc,
                   recvPc, workerPc, audio_input_queue, video_frame_queue, nextAudio,
                   nextVideo, audioChunk, videoFrame, audioHanded, sentAudio, sentVideo,
                   lastPut, nInbound>>
    /\ UNCHANGED <<trackVars, noteVars, lifeVars>>
    /\ UNCHANGED stepVars

\* audio_callback: if self.running: self.audio_input_queue.put(frame)
AudioCallback ==
    /\ input_stream = "open"
    /\ running
    /\ nextAudio <= MaxAudioFrames
    /\ audio_input_queue' = Put(audio_input_queue, nextAudio, AudioQueueMaxsize).q
    /\ nextAudio' = nextAudio + 1
    /\ UNCHANGED <<msgVars, running, appPc, input_stream, output_stream, threadPc, audioPc,
                   videoPc, recvPc, workerPc, video_frame_queue, nextVideo, audioChunk,
                   videoFrame, audioHanded, sentAudio, sentVideo, lastPut, nInbound>>
    /\ UNCHANGED <<trackVars, noteVars, lifeVars>>
    /\ UNCHANGED stepVars

\* send_video_frame of v1 / v2: put_nowait while running, dropped when full
SendVideoFrame ==
    /\ HasVideoQueue
    /\ appPc \in {"started", "stopped"}
    /\ nextVideo <= MaxVideoFrames
    /\ LET r == IF running
                THEN PutNowait(video_frame_queue, nextVideo, VideoQueueMaxsize)
                ELSE [q |-> video_frame_queue, result |-> "ignored"]
       IN  /\ video_frame_queue' = r.q
           /\ lastPut' = r.result
    /\ nextVideo' = nextVideo + 1
    /\ UNCHANGED <<msgVars, running, appPc, input_stream, output_stream, threadPc, audioPc,
                   videoPc, recvPc, workerPc, audio_input_queue, nextAudio, audioChunk,
                   videoFrame, audioHanded, sentAudio, sentVideo, nInbound>>
    /\ UNCHANGED <<trackVars, noteVars, lifeVars>>
    /\ UNCHANGED stepVars

\* send_video_frame of the bridge client: the caller itself writes SEND_VIDEO,
\* by asyncio.run() on its own thread, once a connection exists
BridgeSendVideoFrame ==
    /\ impl = "bridge"
    /\ appPc \in {"started", "stopped"}
    /\ nextVideo <= MaxVideoFrames
    /\ nextVideo' = nextVideo + 1
    /\ IF running /\ threadPc \in {"loops", "ended"}
       THEN /\ appPc' = "video_sending"
            /\ videoFrame' = nextVideo
            /\ UNCHANGED lastPut
       ELSE /\ lastPut' = "ignored"
            /\ UNCHANGED <<appPc, videoFrame>>
    /\ UNCHANGED <<msgVars, running, input_stream, output_stream, threadPc, audioPc, videoPc,
                   recvPc, workerPc, audio_input_queue, video_frame_queue, nextAudio,
                   audioChunk, audioHanded, sentAudio, sentVideo, nInbound>>
    /\ UNCHANGED <<trackVars, noteVars, lifeVars>>
    /\ UNCHANGED stepVars

\* the caller's write returns; _send_message swallows a failed ws.send
BridgeVideoReturn ==
    /\ appPc = "video_sending"
    /\ \E ok \in BOOLEAN :
          /\ ok => threadPc = "loops"
          /\ sentVideo' = IF ok THEN Append(sentVideo, videoFrame) ELSE sentVideo
          /\ transportFailed' = (transportFailed \/ ~ok)
    /\ videoFrame' = 0
    /\ lastPut' = "written"
    /\ appPc' = "started"
    /\ UNCHANGED <<msgVars, running, input_stream, output_stream, threadPc, audioPc, videoPc,
                   recvPc, workerPc, audio_input_queue, video_frame_queue, nextAudio,
                   nextVideo, audioChunk, audioHanded, sentAudio, nInbound>>
    /\ UNCHANGED <<trackVars, lifeVars, statusLog>>
    /\ UNCHANGED stepVars

\* The three loops of v1 / v2 are coroutines of one event loop: one runs until
\* it awaits. _send_video_loop waits for a frame in the blocking
\* queue.get(timeout=1/FRAME_RATE) and on queue.Empty goes round again without
\* awaiting, so while the session runs and no frame is queued it keeps the
\* event loop's thread and the other two loops do not run
VideoHoldsLoop ==
    /\ HasVideoQueue
    /\ videoPc = "poll"
    /\ running
    /\ video_frame_queue = <<>>

\* _send_audio_loop, one iteration up to the send: while self.running;
\* get_nowait(); on an empty queue sleep and retry, else call the send
AudioPoll ==
    /\ audioPc = "poll"
    /\ ~VideoHoldsLoop
    /\ ~running \/ audio_input_queue # <<>>
    /\ IF ~running
       THEN /\ audioPc' = "done"
            /\ UNCHANGED <<audio_input_queue, audioChunk, audioHanded>>
       ELSE LET g == GetOldest(audio_input_queue) IN
            /\ audio_input_queue' = g.q
            /\ audioChunk' = g.item
            /\ audioHanded' = Append(audioHanded, g.item)
            /\ audioPc' = "sending"
    /\ UNCHANGED <<msgVars, running, appPc, input_stream, output_stream, threadPc, videoPc,
                   recvPc, workerPc, video_frame_queue, nextAudio, nextVideo, videoFrame,
                   sentAudio, sentVideo, lastPut, nInbound>>
    /\ UNCHANGED <<trackVars, noteVars, lifeVars>>
    /\ UNCHANGED stepVars

\* how an audio write can end: v1 bounds it by wait_for(timeout=1.0)
AudioSendOutcomes == IF impl = "v1" THEN {"ok", "timeout", "raise"} ELSE {"ok", "raise"}

\* where the send-audio loop goes after a write: v1 breaks on an exception and
\* continues on a timeout; v2 logs the exception; the bridge's _send_message
\* swallows it
AfterAudioSend(outcome) == IF impl = "v1" /\ outcome = "raise" THEN "done" ELSE "poll"

\* _send_audio_loop: the awaited send returns or raises
AudioSendReturn ==
    /\ audioPc = "sending"
    /\ ~VideoHoldsLoop
    /\ \E outcome \in AudioSendOutcomes :
          /\ sentAudio' = IF outcome = "ok" THEN Append(sentAudio, audioChunk) ELSE sentAudio
          /\ audioPc' = AfterAudioSend(outcome)
          /\ transportFailed' = (transportFailed \/ outcome = "raise")
    /\ audioChunk' = 0
    /\ UNCHANGED <<msgVars, running, appPc, input_stream, output_stream, threadPc, videoPc,
                   recvPc, workerPc, audio_input_queue, video_frame_queue, nextAudio,
                   nextVideo, videoFrame, audioHanded, sentVideo, lastPut, nInbound>>
    /\ UNCHANGED <<trackVars, lifeVars, statusLog>>
    /\ UNCHANGED stepVars

\* _send_video_loop, one iteration up to the send: while self.running;
\* get(timeout=1/FRAME_RATE); on timeout retry, else encode and call the send.
\* videoInterval tells whether one send interval (1/FRAME_RATE) has passed
\* since the loop last took a frame for sending
VideoPoll ==
    /\ videoPc = "poll"
    /\ ~running \/ video_frame_queue # <<>>
    /\ IF ~running
       THEN /\ videoPc' = "done"
            /\ UNCHANGED <<video_frame_queue, videoFrame>>
       ELSE LET g == GetOldest(video_frame_queue) IN
            /\ video_frame_queue' = g.q
            /\ videoFrame' = g.item
            /\ videoPc' = "sending"
    /\ videoInterval' = IF running THEN "running" ELSE videoInterval
    /\ UNCHANGED <<msgVars, running, appPc, input_stream, output_stream, threadPc, audioPc,
                   recvPc, workerPc, audio_input_queue, nextAudio, nextVideo, audioChunk,
                   audioHanded, sentAudio, sentVideo, lastPut, nInbound>>
    /\ UNCHANGED <<trackVars, noteVars, lifeVars>>
    /\ UNCHANGED <<turnPc, startCalls>>

\* _send_video_loop: the awaited send returns, or raises and breaks the loop
VideoSendReturn ==
    /\ videoPc = "sending"
    /\ \E ok \in BOOLEAN :
          /\ sentVideo' = IF ok THEN Append(sentVideo, videoFrame) ELSE sentVideo
          /\ videoPc' = IF ok THEN "poll" ELSE "done"
          /\ transportFailed' = (transportFailed \/ ~ok)
    /\ videoFrame' = 0
    /\ UNCHANGED <<msgVars, running, appPc, input_stream, output_stream, threadPc, audioPc,
                   recvPc, workerPc, audio_input_queue, video_frame_queue, nextAudio,
                   nextVideo, audioChunk, audioHanded, sentAudio, lastPut, nInbound>>
    /\ UNCHANGED <<trackVars, lifeVars, statusLog>>
    /\ UNCHANGED stepVars

\* _receive_loop: a message arrives and is handled up to its first write.
\* An audio message is queued for playback. A tool call runs the handler and
\* starts the write of its response; in the bridge client that write is
\* asyncio.run() inside the event loop, whose RuntimeError ends the loop
RecvMessage ==
    /\ recvPc = "waiting"
    /\ ~VideoHoldsLoop
    /\ nInbound < MaxInbound
    /\ nInbound' = nInbound + 1
    /\ \E kind \in {"audio", "tool"} :
          IF kind = "audio"
          THEN /\ audio_output_queue' = Append(audio_output_queue, "pcm")
               /\ aiState' = IF HasVideoQueue THEN "speaking" ELSE aiState
               /\ UNCHANGED recvPc
          ELSE /\ recvPc' = IF AsyncioRunRaises(~HasVideoQueue) THEN "done" ELSE "sending"
               /\ aiState' = IF HasVideoQueue THEN "using_tool" ELSE aiState
               /\ UNCHANGED audio_output_queue
    /\ UNCHANGED <<impl, recvLog, current_input_transcription, current_output_transcription,
                   emitted, toolReplies, handlerLog, recvAlive, nextCallId, running, appPc,
                   input_stream, output_stream, threadPc, audioPc, videoPc, workerPc,
                   audio_input_queue, video_frame_queue, nextAudio, nextVideo, audioChunk,
                   videoFrame, audioHanded, sentAudio, sentVideo, lastPut>>
    /\ UNCHANGED <<trackVars, noteVars, lifeVars>>
    /\ UNCHANGED stepVars

\* the awaited send_tool_response returns: the success response was written,
\* or it raised and the error response was written, or that raised too; then
\* the settle delay and on_ai_state('listening')
RecvSendReturn ==
    /\ recvPc = "sending"
    /\ ~VideoHoldsLoop
    /\ \E outcome \in {"success", "error", "none"} :
          /\ toolReplies' = IF outcome = "none" THEN toolReplies
                            ELSE Append(toolReplies, ToolResponse(nextCallId, outcome))
          /\ aiState' = IF outcome = "none" THEN aiState ELSE "listening"
          /\ transportFailed' = (transportFailed \/ outcome = "none")
    /\ nextCallId' = nextCallId + 1
    /\ recvPc' = "waiting"
    /\ UNCHANGED <<impl, recvLog, current_input_transcription, current_output_transcription,
                   emitted, handlerLog, recvAlive, audio_output_queue, sessVarsButRecv>>
    /\ UNCHANGED <<trackVars, lifeVars, statusLog>>
    /\ UNCHANGED stepVars

\* the remote peer closes the connection: the receive iteration ends
RecvClosed ==
    /\ recvPc = "waiting"
    /\ ~VideoHoldsLoop
    /\ recvPc' = "done"
    /\ transportFailed' = TRUE
    /\ UNCHANGED <<msgVars, sessVarsButRecv>>
    /\ UNCHANGED <<trackVars, lifeVars, statusLog>>
    /\ UNCHANGED stepVars

\* the bridge client's _receive_loop: wait_for(recv(), timeout=0.1) times out
\* and while self.running ends the loop; v1 and v2 iterate session.receive()
\* without a timeout and without reading self.running
RecvTimeout ==
    /\ impl = "bridge"
    /\ recvPc = "waiting"
    /\ ~running
    /\ recvPc' = "done"
    /\ UNCHANGED <<msgVars, sessVarsButRecv>>
    /\ UNCHANGED <<trackVars, noteVars, lifeVars>>
    /\ UNCHANGED stepVars

\* _audio_output_worker, one iteration up to the write: while self.running;
\* audio_chunk = self.audio_output_queue.get(timeout=0.1), retried on Empty
AudioOutputWorker ==
    /\ workerPc = "poll"
    /\ ~running \/ audio_output_queue # <<>>
    /\ IF ~running
       THEN workerPc' = "done" /\ UNCHANGED audio_output_queue
       ELSE audio_output_queue' = GetOldest(audio_output_queue).q /\ workerPc' = "write"
    /\ UNCHANGED <<impl, recvLog, current_input_transcription, current_output_transcription,
                   emitted, aiState, toolReplies, handlerLog, recvAlive, nextCallId,
                   running, appPc, input_stream, output_stream, threadPc, audioPc, videoPc,
                   recvPc, audio_input_queue, video_frame_queue, nextAudio, nextVideo,
                   audioChunk, videoFrame, audioHanded, sentAudio, sentVideo, lastPut,
                   nInbound>>
    /\ UNCHANGED <<trackVars, noteVars, lifeVars>>
    /\ UNCHANGED stepVars

\* _audio_output_worker: if audio_chunk and self.output_stream:
\* self.output_stream.write(audio_array). Neither self.running nor the state of
\* the stream is read again; a stream that stop() has closed is still a stream
\* object, and what its write raises is caught and printed
WorkerWrite ==
    /\ workerPc = "write"
    /\ workerPc' = "poll"
    /\ UNCHANGED <<msgVars, running, appPc, input_stream, output_stream, threadPc, audioPc,
                   videoPc, recvPc, audio_input_queue, video_frame_queue, nextAudio,
                   nextVideo, audioChunk, videoFrame, audioHanded, sentAudio, sentVideo,
                   lastPut, nInbound>>
    /\ UNCHANGED <<trackVars, noteVars, lifeVars>>
    /\ UNCHANGED stepVars

\* stop(): self.running = False
StopSignal ==
    /\ appPc = "started"
    /\ running' = FALSE
    /\ appPc' = "stop_signalled"
    /\ UNCHANGED <<msgVars, input_stream, output_stream, threadPc, audioPc, videoPc, recvPc,
                   workerPc, audio_input_queue, video_frame_queue, nextAudio, nextVideo,
                   audioChunk, videoFrame, audioHanded, sentAudio, sentVideo, lastPut,
                   nInbound>>
    /\ UNCHANGED <<trackVars, noteVars, lifeVars>>
    /\ UNCHANGED stepVars

Closed(stream) == IF stream = "open" THEN "closed" ELSE stream

\* stop(): both streams stopped and closed; v1 and v2 then report and return,
\* the bridge client first writes STOP_SESSION if a connection exists
StopStreams ==
    /\ appPc = "stop_signalled"
    /\ input_stream' = Closed(input_stream)
    /\ output_stream' = Closed(output_stream)
    /\ appPc' = IF impl = "bridge" /\ threadPc \in {"loops", "ended"}
                THEN "stop_sending" ELSE "stopped"
    /\ statusLog' = IF appPc' = "stopped" THEN Append(statusLog, "stopped") ELSE statusLog
    /\ UNCHANGED <<msgVars, running, threadPc, audioPc, videoPc, recvPc, workerPc,
                   audio_input_queue, video_frame_queue, nextAudio, nextVideo, audioChunk,
                   videoFrame, audioHanded, sentAudio, sentVideo, lastPut, nInbound>>
    /\ UNCHANGED <<trackVars, lifeVars, transportFailed>>
    /\ UNCHANGED stepVars

\* the bridge client's stop(): the STOP_SESSION write returns, stop() returns
StopSendReturn ==
    /\ appPc = "stop_sending"
    /\ appPc' = "stopped"
    /\ statusLog' = Append(statusLog, "stopped")
    /\ UNCHANGED <<msgVars, running, input_stream, output_stream, threadPc, audioPc, videoPc,
                   recvPc, workerPc, audio_input_queue, video_frame_queue, nextAudio,
                   nextVideo, audioChunk, videoFrame, audioHanded, sentAudio, sentVideo,
                   lastPut, nInbound>>
    /\ UNCHANGED <<trackVars, lifeVars, transportFailed>>
    /\ UNCHANGED stepVars

InitSess ==
    /\ Constructed
    /\ TrackConstructed
    /\ app = "desktop"
    /\ impl \in {"v1", "v2", "bridge"}
    /\ recvLog = <<>>
    /\ current_input_transcription = <<>>
    /\ current_output_transcription = <<>>
    /\ emitted = <<>>
    /\ aiState = "idle"
    /\ toolReplies = <<>>
    /\ handlerLog = <<>>
    /\ recvAlive = TRUE
    /\ nextCallId = 1
    /\ audio_output_queue = <<>>

NextSess ==
    \/ Start
    \/ Connect
    \/ ThreadEnd
    \/ AudioCallback
    \/ SendVideoFrame
    \/ BridgeSendVideoFrame
    \/ BridgeVideoReturn
    \/ AudioPoll
    \/ AudioSendReturn
    \/ VideoPoll
    \/ VideoSendReturn
    \/ RecvMessage
    \/ RecvSendReturn
    \/ RecvClosed
    \/ RecvTimeout
    \/ AudioOutputWorker
    \/ WorkerWrite
    \/ StopSignal
    \/ StopStreams
    \/ StopSendReturn

SpecSess == InitSess /\ [][NextSess]_vars

\* one send interval, 1.0 / FRAME_RATE seconds, passes since the last frame
\* was taken for sending
IntervalTick ==
    /\ videoInterval = "running"
    /\ videoInterval' = "elapsed"
    /\ UNCHANGED <<msgVars, sessVars, trackVars, noteVars, lifeVars, turnPc, startCalls>>

\* the video path of one v1 / v2 session against the clock
NextRate ==
    \/ Start
    \/ Connect
    \/ SendVideoFrame
    \/ VideoPoll
    \/ VideoSendReturn
    \/ IntervalTick
    \/ StopSignal
    \/ StopStreams

InitRate == InitSess /\ HasVideoQueue

SpecRate == InitRate /\ [][NextRate]_vars

\* start() again after stop() has returned: stop() joined nothing, so the
\* session thread and the playback worker of the earlier start may still be alive
Restart ==
    /\ appPc = "stopped"
    /\ starts < MaxStarts
    /\ StartSession

\* a session thread of an earlier start returns: its connection was refused or
\* closed, or its loops have returned
OrphanThreadEnd ==
    /\ orphanThreads > 0
    /\ orphanThreads' = orphanThreads - 1
    /\ UNCHANGED <<msgVars, sessVars, trackVars, noteVars, starts, orphanWorkers>>
    /\ UNCHANGED stepVars

\* a playback worker of an earlier start returns: while self.running is its
\* only way out
OrphanWorkerEnd ==
    /\ orphanWorkers > 0
    /\ ~running
    /\ orphanWorkers' = orphanWorkers - 1
    /\ UNCHANGED <<msgVars, sessVars, trackVars, noteVars, starts, orphanThreads>>
    /\ UNCHANGED stepVars

\* the life cycle of one session object over several start() / stop() calls,
\* without media traffic
NextLife ==
    \/ Start
    \/ StartAgain
    \/ Restart
    \/ Connect
    \/ ThreadEnd
    \/ AudioPoll
    \/ VideoPoll
    \/ RecvClosed
    \/ RecvTimeout
    \/ AudioOutputWorker
    \/ StopSignal
    \/ StopStreams
    \/ StopSendReturn
    \/ OrphanThreadEnd
    \/ OrphanWorkerEnd

SpecLife == InitSess /\ [][NextLife]_vars

\* _receive_loop of a connected session hands a transcription or turn
\* completion message to the handler
SessionTurnReceive ==
    /\ recvPc = "waiting"
    /\ ~VideoHoldsLoop
    /\ Len(recvLog) < MaxInbound
    /\ TurnReceive

\* several start() / stop() calls on one session object, with media traffic
\* and transcription text, up to the point where a loop hands a frame to the
\* connection; playback and the threads of earlier starts are left out
NextRenew ==
    \/ Start
    \/ Restart
    \/ Connect
    \/ AudioCallback
    \/ SendVideoFrame
    \/ AudioPoll
    \/ VideoPoll
    \/ SessionTurnReceive
    \/ TurnEmit
    \/ TurnReset
    \/ StopSignal
    \/ StopStreams
    \/ StopSendReturn

SpecRenew == InitSess /\ [][NextRenew]_vars

\* every loop and every call of the program takes its next step when it can;
\* nothing is assumed of the application (start, stop, frames), the microphone
\* or the remote peer (messages, closing)
FairSpecSess ==
    /\ SpecSess
    /\ WF_vars(Connect)
    /\ WF_vars(ThreadEnd)
    /\ WF_vars(BridgeVideoReturn)
    /\ WF_vars(AudioPoll)
    /\ WF_vars(AudioSendReturn)
    /\ WF_vars(VideoPoll)
    /\ WF_vars(VideoSendReturn)
    /\ WF_vars(RecvSendReturn)
    /\ WF_vars(RecvTimeout)
    /\ WF_vars(AudioOutputWorker)
    /\ WF_vars(WorkerWrite)
    /\ WF_vars(StopStreams)
    /\ WF_vars(StopSendReturn)

\* the audio write is under asyncio.wait_for(..., timeout=1.0)
AudioSendBounded == "timeout" \in AudioSendOutcomes

\* as FairSpecSess, but the remote peer may stall a write for ever: an audio
\* write is sure to end only where the code bounds it by a timeout
StallSpecSess ==
    /\ SpecSess
    /\ WF_vars(Connect)
    /\ WF_vars(ThreadEnd)
    /\ WF_vars(BridgeVideoReturn)
    /\ WF_vars(AudioPoll)
    /\ WF_vars(AudioSendBounded /\ AudioSendReturn)
    /\ WF_vars(VideoPoll)
    /\ WF_vars(VideoSendReturn)
    /\ WF_vars(RecvSendReturn)
    /\ WF_vars(RecvTimeout)
    /\ WF_vars(AudioOutputWorker)
    /\ WF_vars(WorkerWrite)
    /\ WF_vars(StopStreams)
    /\ WF_vars(StopSendReturn)

----------------------------------------------------------------------------
(* The desktop application's GeminiSession (a QThread): run(), the four
   coroutines gathered by async_run(), and stop() *)

\* what no step of the desktop session changes
deskRest == <<impl, recvLog, current_input_transcription, current_output_transcription,
              emitted, aiState, toolReplies, handlerLog, recvAlive, nextCallId,
              video_frame_queue, nextVideo, videoFrame, audioHanded, sentVideo, lastPut,
              transportFailed, trackVars, lifeVars, stepVars>>

\* start_session: GeminiSession(); self.gemini_session.start()
DeskStart ==
    /\ appPc = "idle"
    /\ appPc' = "started"
    /\ threadPc' = "starting"
    /\ UNCHANGED <<running, input_stream, output_stream, audioPc, videoPc, recvPc, workerPc,
                   audio_input_queue, audio_output_queue, nextAudio, audioChunk, sentAudio,
                   nInbound, statusLog, deskRest>>

\* run(): self.running = True; asyncio.run(self.async_run())
DeskRun ==
    /\ threadPc = "starting"
    /\ running' = TRUE
    /\ threadPc' = "connecting"
    /\ UNCHANGED <<appPc, input_stream, output_stream, audioPc, videoPc, recvPc, workerPc,
                   audio_input_queue, audio_output_queue, nextAudio, audioChunk, sentAudio,
                   nInbound, statusLog, deskRest>>

\* async_run(): without an API key report and return; else 'Connecting...',
\* connect, 'Active' and gather the four coroutines, send_audio and play_audio
\* opening their streams; a refused connection or a device that cannot be
\* opened is reported and ends the thread
DeskConnect ==
    /\ threadPc = "connecting"
    /\ \E outcome \in {"ok", "no_key", "refused"} :
          IF outcome = "ok"
          THEN /\ threadPc' = "loops"
               /\ audioPc' = "poll"
               /\ videoPc' = "poll"
               /\ recvPc' = "poll"
               /\ workerPc' = "poll"
               /\ input_stream' = "open"
               /\ output_stream' = "open"
               /\ statusLog' = statusLog \o <<"connecting", "active">>
          ELSE /\ threadPc' = "ended"
               /\ statusLog' = IF outcome = "no_key" THEN Append(statusLog, "error")
                               ELSE statusLog \o <<"connecting", "error">>
               /\ UNCHANGED <<audioPc, videoPc, recvPc, workerPc, input_stream,
                              output_stream>>
    /\ UNCHANGED <<running, appPc, audio_input_queue, audio_output_queue, nextAudio,
                   audioChunk, sentAudio, nInbound, deskRest>>

\* the callback of send_audio's input stream: the frame goes to the local
\* asyncio.Queue whatever self.running is
DeskAudioCallback ==
    /\ input_stream = "open"
    /\ nextAudio <= MaxAudioFrames
    /\ audio_input_queue' = Append(audio_input_queue, nextAudio)
    /\ nextAudio' = nextAudio + 1
    /\ UNCHANGED <<running, appPc, input_stream, output_stream, threadPc, audioPc, videoPc,
                   recvPc, workerPc, audio_output_queue, audioChunk, sentAudio, nInbound,
                   statusLog, deskRest>>

\* send_audio: while self.running: audio_data = await audio_queue.get(); the
\* get has no timeout; after the loop the finally clause closes the stream
DeskSendAudio ==
    /\ \/ /\ audioPc = "poll"
          /\ audioPc' = IF running THEN "get" ELSE "done"
          /\ input_stream' = IF running THEN input_stream ELSE "closed"
          /\ UNCHANGED <<audio_input_queue, audioChunk>>
       \/ /\ audioPc = "get"
          /\ audio_input_queue # <<>>
          /\ audioChunk' = Head(audio_input_queue)
          /\ audio_input_queue' = Tail(audio_input_queue)
          /\ audioPc' = "sending"
          /\ UNCHANGED input_stream
    /\ UNCHANGED <<running, appPc, output_stream, threadPc, videoPc, recvPc, workerPc,
                   audio_output_queue, nextAudio, sentAudio, nInbound, statusLog, deskRest>>

\* send_audio: await self.session.send_realtime_input(audio=...) returns; what
\* it raises is not caught in send_audio: gather raises, async_run reports the
\* error and asyncio.run cancels the other coroutines, whose finally clauses
\* close the streams
DeskSendReturn ==
    /\ audioPc = "sending"
    /\ audioChunk' = 0
    /\ \E ok \in BOOLEAN :
          IF ok
          THEN /\ sentAudio' = Append(sentAudio, audioChunk)
               /\ audioPc' = "poll"
               /\ UNCHANGED <<threadPc, videoPc, recvPc, workerPc, input_stream,
                              output_stream, statusLog>>
          ELSE /\ threadPc' = "ended"
               /\ audioPc' = "done"
               /\ videoPc' = "done"
               /\ recvPc' = "done"
               /\ workerPc' = "done"
               /\ input_stream' = "closed"
               /\ output_stream' = "closed"
               /\ statusLog' = Append(statusLog, "error")
               /\ UNCHANGED sentAudio
    /\ UNCHANGED <<running, appPc, audio_input_queue, audio_output_queue, nextAudio,
                   nInbound, deskRest>>

\* send_video_frames: while self.running: ...; await asyncio.sleep(0.1). The
\* frames update_frame hands to run_coroutine_threadsafe go to the caller's
\* own event loop, not to the session's, so this loop finds its queue empty
DeskSendVideo ==
    /\ videoPc = "poll"
    /\ ~running
    /\ videoPc' = "done"
    /\ UNCHANGED <<running, appPc, input_stream, output_stream, threadPc, audioPc, recvPc,
                   workerPc, audio_input_queue, audio_output_queue, nextAudio, audioChunk,
                   sentAudio, nInbound, statusLog, deskRest>>

\* receive_audio: while self.running: async for response in
\* self.session.receive(); the iteration waits for the remote peer without a
\* timeout; audio data is queued for playback; the iteration ends with the
\* turn, and a closed connection raises into the except clause
DeskReceive ==
    /\ \/ /\ recvPc = "poll"
          /\ recvPc' = IF running THEN "waiting" ELSE "done"
          /\ UNCHANGED <<audio_output_queue, nInbound, statusLog>>
       \/ /\ recvPc = "waiting"
          /\ nInbound < MaxInbound
          /\ nInbound' = nInbound + 1
          /\ audio_output_queue' = Append(audio_output_queue, "pcm")
          /\ UNCHANGED <<recvPc, statusLog>>
       \/ /\ recvPc = "waiting"
          /\ nInbound < MaxInbound
          /\ nInbound' = nInbound + 1
          /\ recvPc' = "poll"
          /\ statusLog' = Append(statusLog, "listening")
          /\ UNCHANGED audio_output_queue
       \/ /\ recvPc = "waiting"
          /\ recvPc' = "done"
          /\ UNCHANGED <<audio_output_queue, nInbound, statusLog>>
    /\ UNCHANGED <<running, appPc, input_stream, output_stream, threadPc, audioPc, videoPc,
                   workerPc, audio_input_queue, nextAudio, audioChunk, sentAudio, deskRest>>

\* play_audio: while self.running: audio_data = await
\* self.audio_out_queue.get(); write; 'Speaking'. The get has no timeout;
\* after the loop the finally clause closes the stream
DeskPlayAudio ==
    /\ \/ /\ workerPc = "poll"
          /\ workerPc' = IF running THEN "get" ELSE "done"
          /\ output_stream' = IF running THEN output_stream ELSE "closed"
          /\ UNCHANGED <<audio_output_queue, statusLog>>
       \/ /\ workerPc = "get"
          /\ audio_output_queue # <<>>
          /\ audio_output_queue' = Tail(audio_output_queue)
          /\ workerPc' = "write"
          /\ UNCHANGED <<output_stream, statusLog>>
       \/ /\ workerPc = "write"
          /\ workerPc' = "poll"
          /\ statusLog' = Append(statusLog, "speaking")
          /\ UNCHANGED <<output_stream, audio_output_queue>>
    /\ UNCHANGED <<running, appPc, input_stream, threadPc, audioPc, videoPc, recvPc,
                   audio_input_queue, nextAudio, audioChunk, sentAudio, nInbound, deskRest>>

\* asyncio.gather returns when the four coroutines have returned; run() returns
DeskThreadEnd ==
    /\ threadPc = "loops"
    /\ audioPc = "done"
    /\ videoPc = "done"
    /\ recvPc = "done"
    /\ workerPc = "done"
    /\ threadPc' = "ended"
    /\ UNCHANGED <<running, appPc, input_stream, output_stream, audioPc, videoPc, recvPc,
                   workerPc, audio_input_queue, audio_output_queue, nextAudio, audioChunk,
                   sentAudio, nInbound, statusLog, deskRest>>

\* stop(): self.running = False, then self.wait()
DeskStop ==
    /\ appPc = "started"
    /\ running' = FALSE
    /\ appPc' = "stop_waiting"
    /\ UNCHANGED <<input_stream, output_stream, threadPc, audioPc, videoPc, recvPc, workerPc,
                   audio_input_queue, audio_output_queue, nextAudio, audioChunk, sentAudio,
                   nInbound, statusLog, deskRest>>

\* stop(): QThread.wait() returns when run() has returned
DeskStopReturn ==
    /\ appPc = "stop_waiting"
    /\ threadPc = "ended"
    /\ appPc' = "stopped"
    /\ UNCHANGED <<running, input_stream, output_stream, threadPc, audioPc, videoPc, recvPc,
                   workerPc, audio_input_queue, audio_output_queue, nextAudio, audioChunk,
                   sentAudio, nInbound, statusLog, deskRest>>

NextDesk ==
    \/ DeskStart
    \/ DeskRun
    \/ DeskConnect
    \/ DeskAudioCallback
    \/ DeskSendAudio
    \/ DeskSendReturn
    \/ DeskSendVideo
    \/ DeskReceive
    \/ DeskPlayAudio
    \/ DeskThreadEnd
    \/ DeskStop
    \/ DeskStopReturn

SpecDesk == InitApp /\ [][NextDesk]_vars

\* every step of the session thread and of stop() is taken when it can be;
\* nothing is assumed of the microphone or of the remote peer
FairSpecDesk ==
    /\ SpecDesk
    /\ WF_vars(DeskRun)
    /\ WF_vars(DeskConnect)
    /\ WF_vars(DeskSendAudio)
    /\ WF_vars(DeskSendReturn)
    /\ WF_vars(DeskSendVideo)
    /\ WF_vars(recvPc = "poll" /\ DeskReceive)
    /\ WF_vars(DeskPlayAudio)
    /\ WF_vars(DeskThreadEnd)
    /\ WF_vars(DeskStopReturn)

----------------------------------------------------------------------------
(* Cancellation and lifecycle *)

LoopsExited ==
    /\ audioPc \in {"none", "done"}
    /\ videoPc \in {"none", "done"}
    /\ recvPc \in {"none", "done"}

\* C4 as stated: once running is false, the send-audio, send-video and receive
\* loops of a connected session all exit, whether or not the remote peer sends
\* a further message or closes the connection.
C4_LoopsExitOnceNotRunning ==
    (~running /\ threadPc = "loops") ~> LoopsExited

\* C5 as stated: stop() has not returned while a loop the session owns (the
\* session thread with its loops, the playback worker) is still running or a
\* hardware stream is still open.
C5_StopReturnsAfterLoopsExit ==
    appPc = "stopped" =>
        /\ threadPc \in {"none", "ended"}
        /\ workerPc \in {"none", "done"}
        /\ input_stream # "open"
        /\ output_stream # "open"

\* the writes on the connection that have started and not yet returned
InFlight ==
    (IF audioPc = "sending" THEN {"audio"} ELSE {})
    \cup (IF videoPc = "sending" THEN {"video"} ELSE {})
    \cup (IF recvPc = "sending" THEN {"tool_response"} ELSE {})
    \cup (IF appPc = "video_sending" THEN {"caller_video"} ELSE {})
    \cup (IF appPc = "stop_sending" THEN {"stop_session"} ELSE {})

\* C6 as stated: in every reachable state at most one write is in flight on
\* the connection, across all loops and all calling threads.
C6_OneWriteInFlight == Cardinality(InFlight) <= 1

----------------------------------------------------------------------------
(* The media queues *)

\* C7: the video frame queue never holds more than its capacity (2), and no
\* send_video_frame call ends blocked, whatever the interleaving of calls and
\* consumer pops.
C7_VideoQueueBounded ==
    /\ Len(video_frame_queue) <= VideoQueueMaxsize
    /\ lastPut # "blocked"

\* three frames were pushed with no pop in between: the third found the queue full
C7_Witness ==
    /\ nextVideo = 4
    /\ videoPc = "poll"
    /\ sentVideo = <<>>
    /\ Len(video_frame_queue) = VideoQueueMaxsize
    /\ lastPut = "full"

\* C8: a send_video_frame call made while the session runs and the video queue
\* is full discards the incoming frame and leaves the queue's resident frames
\* as they were, in the same order.
C8_DropNewestOnFull ==
    [][(/\ HasVideoQueue
        /\ running
        /\ nextVideo' = nextVideo + 1
        /\ Len(video_frame_queue) = VideoQueueMaxsize)
       => (video_frame_queue' = video_frame_queue /\ lastPut' = "full")]_vars

\* frame 3 was dropped on a queue still holding frames 1 and 2
C8_Witness ==
    /\ video_frame_queue = <<1, 2>>
    /\ nextVideo > 3
    /\ lastPut = "full"

Increasing(seq) == \A i, j \in DOMAIN seq : i < j => seq[i] < seq[j]

\* C9: the audio frames popped from the input queue come out in push order with
\* none skipped (the k-th pop returns the k-th captured frame), and the frames
\* written to the remote agent are written in capture order.
C9_AudioInCaptureOrder ==
    /\ \A i \in DOMAIN audioHanded : audioHanded[i] = i
    /\ Increasing(sentAudio)

\* two frames were captured before the first pop, and both were written
C9_Witness ==
    /\ sentAudio = <<1, 2>>
    /\ nextAudio = 3

Captured == 1..(nextAudio - 1)

\* C10 as stated: every audio frame captured while the session is running is
\* handed to the connection by the send-audio loop, whatever the outcome of
\* the individual send calls: while running is set, the loop has not ended
\* leaving a captured frame unsent.
C10_NoCapturedFrameLeftBehind ==
    (running /\ audioPc = "done") =>
        \A f \in Captured : \E i \in DOMAIN audioHanded : audioHanded[i] = f

----------------------------------------------------------------------------
(* Object tracking: tracker_service.py, and its callers in main.py (the HTTP
   API) and r_hat_app.py (the desktop window).  A normalized coordinate is an
   exact fraction num/den; a confidence or a similarity score is a number of
   hundredths. *)

MaxTrackers == 1

\* frame.shape of the camera frames (test_tracker.py asks the camera for 640x480)
FrameW == 640
FrameH == 480

InitialConfidence == 100
ConfidenceFloor == 30
ConfidenceCeiling == 100
ConfidencePenalty == 10
ConfidenceReward == 5
LostThreshold == 30
AcceptanceThreshold == 15

Min(a, b) == IF a < b THEN a ELSE b
Max(a, b) == IF a > b THEN a ELSE b

Frac(n, d) == [num |-> n, den |-> d]
Zero == Frac(0, 1)
One == Frac(1, 1)
Less(a, b) == a.num * b.den < b.num * a.den
Times(a, b) == Frac(a.num * b.num, a.den * b.den)
Plus(a, b) == Frac(a.num * b.den + b.num * a.den, a.den * b.den)

\* a box in thousandths of the frame, as the detector and the callers give it
NormBox(x, y, width, height) ==
    [x |-> Frac(x, 1000), y |-> Frac(y, 1000), width |-> Frac(width, 1000),
     height |-> Frac(height, 1000)]

\* int(v * n) for a fraction v with a positive denominator: int() drops the
\* fractional part, towards zero
IntOfProduct(v, n) ==
    IF v.num * n >= 0 THEN (v.num * n) \div v.den
    ELSE 0 - ((0 - v.num * n) \div v.den)

\* the pixel rectangle as converted, without the clamping
InitializeUnclamped(bbox, w, h) ==
    [x |-> IntOfProduct(bbox.x, w), y |-> IntOfProduct(bbox.y, h),
     width |-> IntOfProduct(bbox.width, w), height |-> IntOfProduct(bbox.height, h)]

\* TrackerInstance.initialize on a frame of width w and height h: the pixel
\* rectangle handed to tracker.init
InitializeIn(bbox, w, h) ==
    LET x0 == IntOfProduct(bbox.x, w)
        y0 == IntOfProduct(bbox.y, h)
        width0 == IntOfProduct(bbox.width, w)
        height0 == IntOfProduct(bbox.height, h)
        x == Max(0, Min(x0, w - 1))
        y == Max(0, Min(y0, h - 1))
    IN  [x |-> x, y |-> y,
         width |-> Max(1, Min(width0, w - x)),
         height |-> Max(1, Min(height0, h - y))]

\* TrackerInstance.initialize on a camera frame
Initialize(bbox) == InitializeIn(bbox, FrameW, FrameH)

\* TrackerInstance.__init__ followed by initialize
NewTracker(bbox, label) ==
    [label |-> label, bbox |-> bbox, initial_bbox |-> bbox,
     confidence |-> InitialConfidence, is_active |-> TRUE, initialized |-> TRUE,
     rect |-> Initialize(bbox)]

\* max(0, min(p / n, 1.0))
Clamp01(p, n) == IF p < 0 THEN Zero ELSE IF p > n THEN One ELSE Frac(p, n)

\* a conversion that divides every component by the frame width
ToNormalizedByWidth(rect) ==
    [x |-> Clamp01(rect.x, FrameW), y |-> Clamp01(rect.y, FrameW),
     width |-> Clamp01(rect.width, FrameW), height |-> Clamp01(rect.height, FrameW)]

\* the pixel box of the primitive converted back to normalized coordinates
ToNormalized(rect) ==
    [x |-> Clamp01(rect.x, FrameW), y |-> Clamp01(rect.y, FrameH),
     width |-> Clamp01(rect.width, FrameW), height |-> Clamp01(rect.height, FrameH)]

Area(bbox) == Times(bbox.width, bbox.height)

\* a test that only looks for a box grown too large
AreaTooLargeOnly(area) == Less(Frac(9, 10), area)

\* area < 0.001 or area > 0.9
AreaOutOfRange(area) == Less(area, Frac(1, 1000)) \/ Less(Frac(9, 10), area)

\* a reward with no ceiling
AdjustConfidenceUncapped(confidence, area) ==
    IF AreaOutOfRange(area)
    THEN Max(ConfidenceFloor, confidence - ConfidencePenalty)
    ELSE confidence + ConfidenceReward

AdjustConfidence(confidence, area) ==
    IF AreaOutOfRange(area)
    THEN Max(ConfidenceFloor, confidence - ConfidencePenalty)
    ELSE Min(ConfidenceCeiling, confidence + ConfidenceReward)

\* what self.tracker.update(frame) can answer: failure, the rectangle it was
\* initialised with, a rectangle shrunk to one pixel, or one that has grown to
\* the size of the frame and reaches past its right and bottom edges; "none"
\* stands for a primitive that is not asked
OutcomeKinds == {"fail", "same", "shrunk", "grown"}

PrimitiveUpdate(t, kind) ==
    CASE kind = "same" -> [success |-> TRUE, rect |-> t.rect]
      [] kind = "shrunk" ->
            [success |-> TRUE, rect |-> [t.rect EXCEPT !.width = 1, !.height = 1]]
      [] kind = "grown" ->
            [success |-> TRUE,
             rect |-> [x |-> FrameW \div 8, y |-> FrameH \div 8,
                       width |-> FrameW, height |-> FrameH]]
      [] OTHER -> [success |-> FALSE, rect |-> t.rect]

\* an update whose failure branch keeps the previous confidence
TrackerUpdateKeepsConfidence(t, kind) ==
    IF ~t.initialized
    THEN [success |-> FALSE, bbox |-> t.bbox, confidence |-> 0, tracker |-> t]
    ELSE LET r == PrimitiveUpdate(t, kind) IN
         IF r.success
         THEN LET bbox == ToNormalized(r.rect)
                  confidence == AdjustConfidence(t.confidence, Area(bbox))
              IN  [success |-> TRUE, bbox |-> bbox, confidence |-> confidence,
                   tracker |-> [t EXCEPT !.bbox = bbox, !.confidence = confidence]]
         ELSE [success |-> FALSE, bbox |-> t.bbox, confidence |-> t.confidence,
               tracker |-> [t EXCEPT !.is_active = FALSE]]

\* TrackerInstance.update(frame), the primitive answering `kind`
TrackerUpdate(t, kind) ==
    IF ~t.initialized
    THEN [success |-> FALSE, bbox |-> t.bbox, confidence |-> 0, tracker |-> t]
    ELSE LET r == PrimitiveUpdate(t, kind) IN
         IF r.success
         THEN LET bbox == ToNormalized(r.rect)
                  confidence == AdjustConfidence(t.confidence, Area(bbox))
              IN  [success |-> TRUE, bbox |-> bbox, confidence |-> confidence,
                   tracker |-> [t EXCEPT !.bbox = bbox, !.confidence = confidence]]
         ELSE [success |-> FALSE, bbox |-> t.bbox, confidence |-> 0,
               tracker |-> [t EXCEPT !.is_active = FALSE, !.confidence = 0]]

(* TrackerService *)

MapPut(m, k, v) == [i \in DOMAIN m \cup {k} |-> IF i = k THEN v ELSE m[i]]
MapDel(m, k) == [i \in DOMAIN m \ {k} |-> m[i]]

\* create_tracker: uuid4 gives an id no tracker has had before
CreateTrackerResult(trs, id, bbox, label) ==
    [trackers |-> MapPut(trs, id, NewTracker(bbox, label)), id |-> id]

Report(bbox, label, confidence, status) ==
    [bbox |-> bbox, label |-> label, confidence |-> confidence, status |-> status]

\* a loop that re-evaluates every tracker, lost or not
SkippedNever(t) == FALSE

\* if not tracker.is_active: report it lost and continue
Skipped(t) == ~t.is_active

\* a test that still counts the threshold itself as tracking
IsTrackingAtThreshold(success, confidence) == success /\ confidence >= LostThreshold

\* if success and confidence > 0.3
IsTracking(success, confidence) == success /\ confidence > LostThreshold

\* the answers the primitives can give in one update_trackers call: one per
\* tracker the loop does not skip
Answers(trs) ==
    { kinds \in [DOMAIN trs -> OutcomeKinds \cup {"none"}] :
        \A id \in DOMAIN trs : (kinds[id] = "none") <=> Skipped(trs[id]) }

\* one iteration of the loop of update_trackers
UpdateOne(t, kind) ==
    IF Skipped(t)
    THEN [tracker |-> t, result |-> Report(t.bbox, t.label, 0, "lost"),
          primitive |-> "none"]
    ELSE LET u == TrackerUpdate(t, kind) IN
         IF IsTracking(u.success, u.confidence)
         THEN [tracker |-> u.tracker,
               result |-> Report(u.bbox, t.label, u.confidence, "tracking"),
               primitive |-> IF t.initialized THEN kind ELSE "none"]
         ELSE [tracker |-> [u.tracker EXCEPT !.is_active = FALSE],
               result |-> Report(u.bbox, t.label, u.confidence, "lost"),
               primitive |-> IF t.initialized THEN kind ELSE "none"]

\* an update that forgets the trackers it finds lost
UpdateTrackersDropsLost(trs, kinds) ==
    LET kept == {id \in DOMAIN trs : UpdateOne(trs[id], kinds[id]).tracker.is_active} IN
    [trackers |-> [id \in kept |-> UpdateOne(trs[id], kinds[id]).tracker],
     results |-> [id \in kept |-> UpdateOne(trs[id], kinds[id]).result],
     primitive |-> [id \in DOMAIN trs |-> UpdateOne(trs[id], kinds[id]).primitive]]

\* update_trackers(image): kinds[id] is the primitive's answer for tracker id
UpdateTrackersResult(trs, kinds) ==
    [trackers |-> [id \in DOMAIN trs |-> UpdateOne(trs[id], kinds[id]).tracker],
     results |-> [id \in DOMAIN trs |-> UpdateOne(trs[id], kinds[id]).result],
     primitive |-> [id \in DOMAIN trs |-> UpdateOne(trs[id], kinds[id]).primitive]]

\* a removal that answers true for any id
RemoveTrackerAlwaysTrue(trs, id) ==
    [trackers |-> MapDel(trs, id), ret |-> "true"]

\* remove_tracker(tracker_id)
RemoveTrackerResult(trs, id) ==
    IF id \in DOMAIN trs
    THEN [trackers |-> MapDel(trs, id), ret |-> "true"]
    ELSE [trackers |-> trs, ret |-> "false"]

\* remove_all_trackers()
RemoveAllTrackersResult(trs) == EmptyMap

RECURSIVE ActiveUpTo(_, _)
ActiveUpTo(trs, n) ==
    IF n = 0 THEN <<>>
    ELSE IF n \in DOMAIN trs /\ trs[n].is_active
         THEN Append(ActiveUpTo(trs, n - 1), n)
         ELSE ActiveUpTo(trs, n - 1)

\* every id of the map, active or not
GetAllTrackerIds(trs) ==
    ActiveUpTo([id \in DOMAIN trs |-> [trs[id] EXCEPT !.is_active = TRUE]], MaxTrackers)

\* get_active_tracker_ids(): the ids of the active trackers, in insertion order
GetActiveTrackerIds(trs) == ActiveUpTo(trs, MaxTrackers)

----------------------------------------------------------------------------
(* TrackerInstance.initialize on its own, over boxes that need not lie in the
   unit square and frames of any size *)

\* coordinates are the halves -MaxHalves/2 .. MaxHalves/2; frames have sides
\* 1 .. MaxSide or the camera's
MaxHalves == 3
MaxSide == 3

Coords == { Frac(n, 2) : n \in (0 - MaxHalves) .. MaxHalves }

FrameSizes ==
    { [w |-> w, h |-> h] : w \in (1 .. MaxSide) \cup {FrameW},
                           h \in (1 .. MaxSide) \cup {FrameH} }

\* tracker.initialize(frame, bbox) with any box and any frame, on a tracker
\* that has just been constructed
InitializeCall ==
    /\ lastOp.op = "none"
    /\ \E x \in Coords, y \in Coords, width \in Coords, height \in Coords,
          size \in FrameSizes :
          LET bbox == [x |-> x, y |-> y, width |-> width, height |-> height] IN
          lastOp' = Op("initialize", 0, "none",
                       [bbox |-> bbox, w |-> size.w, h |-> size.h,
                        rect |-> InitializeIn(bbox, size.w, size.h)])
    /\ UNCHANGED <<app, trackers, nextTrackerId, results, primitive, current_frame,
                   tracked_objects>>
    /\ UNCHANGED <<msgVars, sessVars, noteVars, lifeVars, stepVars>>

NextClamp == InitializeCall

----------------------------------------------------------------------------
(* The callers: the /highlight, /track/update, /track/remove and /track/clear
   endpoints of main.py, and update_frame / handle_function_call of r_hat_app.py *)

\* what the user asks for and the box of the detection that matches it best
Queries ==
    { [object_name |-> "mug", bbox |-> NormBox(400, 400, 200, 200)],
      [object_name |-> "face", bbox |-> NormBox(3, 500, 1, 500)] }

\* what detection and identification answer: no detection, detections but no
\* match, or a best match with a similarity score
Scenes ==
    { [detections |-> 0, matched |-> FALSE, score |-> 0],
      [detections |-> 1, matched |-> FALSE, score |-> 0],
      [detections |-> 1, matched |-> TRUE, score |-> 14],
      [detections |-> 1, matched |-> TRUE, score |-> 15] }

Args(q, frame, scene) ==
    [object_name |-> q.object_name, frame |-> frame, detections |-> scene.detections,
     matched |-> scene.matched, score |-> scene.score]

\* a test that rejects a score equal to the threshold
AcceptsAbove(score) == score > AcceptanceThreshold

\* the negation of `if similarity < 0.15: reject`
Accepts(score) == ~(score < AcceptanceThreshold)

\* the highlight pipeline up to the decision: "created" or the reason for rejecting
Decide(frame, scene) ==
    IF ~frame THEN "no_frame"
    ELSE IF scene.detections = 0 THEN "no_detections"
    ELSE IF ~scene.matched THEN "no_match"
    ELSE IF ~Accepts(scene.score) THEN "low_score"
    ELSE "created"

\* POST /highlight
HighlightObject ==
    /\ app = "api"
    /\ \E q \in Queries, scene \in Scenes :
          LET decision == Decide(TRUE, scene)
              c == CreateTrackerResult(trackers, nextTrackerId, q.bbox, q.object_name)
          IN  IF decision = "created"
              THEN /\ nextTrackerId <= MaxTrackers
                   /\ trackers' = c.trackers
                   /\ nextTrackerId' = nextTrackerId + 1
                   /\ lastOp' = Op("highlight", c.id, decision, Args(q, TRUE, scene))
              ELSE /\ lastOp' = Op("highlight", 0, decision, Args(q, TRUE, scene))
                   /\ UNCHANGED <<trackers, nextTrackerId>>
    /\ UNCHANGED <<app, results, primitive, current_frame, tracked_objects>>
    /\ UNCHANGED <<msgVars, sessVars, noteVars, lifeVars>>
    /\ UNCHANGED stepVars

\* POST /track/update
TrackUpdate ==
    /\ app = "api"
    /\ \E kinds \in Answers(trackers) :
          LET u == UpdateTrackersResult(trackers, kinds) IN
          /\ trackers' = u.trackers
          /\ results' = u.results
          /\ primitive' = u.primitive
    /\ lastOp' = Op("update", 0, "none", NoArgs)
    /\ UNCHANGED <<app, nextTrackerId, current_frame, tracked_objects>>
    /\ UNCHANGED <<msgVars, sessVars, noteVars, lifeVars>>
    /\ UNCHANGED stepVars

\* POST /track/remove
RemoveTracker ==
    /\ app = "api"
    /\ \E id \in 1..MaxTrackers :
          LET r == RemoveTrackerResult(trackers, id) IN
          /\ trackers' = r.trackers
          /\ lastOp' = Op("remove", id, r.ret, NoArgs)
    /\ UNCHANGED <<app, nextTrackerId, results, primitive, current_frame, tracked_objects>>
    /\ UNCHANGED <<msgVars, sessVars, noteVars, lifeVars>>
    /\ UNCHANGED stepVars

\* POST /track/clear
ClearAllTrackers ==
    /\ app = "api"
    /\ trackers' = RemoveAllTrackersResult(trackers)
    /\ lastOp' = Op("clear", 0, "none", NoArgs)
    /\ UNCHANGED <<app, nextTrackerId, results, primitive, current_frame, tracked_objects>>
    /\ UNCHANGED <<msgVars, sessVars, noteVars, lifeVars>>
    /\ UNCHANGED stepVars

\* the loop of update_frame that copies each result into its tracked object
Synced(objects, res) ==
    [i \in DOMAIN objects |->
        IF objects[i].tracker_id \in DOMAIN res
        THEN [objects[i] EXCEPT !.bbox = res[objects[i].tracker_id].bbox,
                                !.confidence = res[objects[i].tracker_id].confidence,
                                !.status = res[objects[i].tracker_id].status]
        ELSE objects[i]]

\* RHatMainWindow.update_frame, the camera having delivered a frame
UpdateFrame ==
    /\ app = "desktop"
    /\ current_frame' = TRUE
    /\ IF tracked_objects # <<>>
       THEN \E kinds \in Answers(trackers) :
               LET u == UpdateTrackersResult(trackers, kinds) IN
               /\ trackers' = u.trackers
               /\ results' = u.results
               /\ primitive' = u.primitive
               /\ tracked_objects' = Synced(tracked_objects, u.results)
               /\ lastOp' = Op("update", 0, "none", NoArgs)
       ELSE /\ lastOp' = Op("frame", 0, "none", NoArgs)
            /\ UNCHANGED <<trackers, results, primitive, tracked_objects>>
    /\ UNCHANGED <<app, nextTrackerId>>
    /\ UNCHANGED <<msgVars, sessVars, noteVars, lifeVars>>
    /\ UNCHANGED stepVars

\* RHatMainWindow.handle_function_call
HandleFunctionCall ==
    /\ app = "desktop"
    /\ \E function_name \in {"highlight_object", "other"}, q \in Queries, scene \in Scenes :
          LET decision == Decide(current_frame, scene)
              c == CreateTrackerResult(trackers, nextTrackerId, q.bbox, q.object_name)
          IN  IF function_name # "highlight_object"
              THEN /\ lastOp' = Op("call", 0, "ignored", NoArgs)
                   /\ UNCHANGED <<trackers, nextTrackerId, tracked_objects>>
              ELSE IF decision = "created"
              THEN /\ nextTrackerId <= MaxTrackers
                   /\ trackers' = c.trackers
                   /\ nextTrackerId' = nextTrackerId + 1
                   /\ tracked_objects' =
                         Append(tracked_objects,
                                [tracker_id |-> c.id, label |-> q.object_name,
                                 bbox |-> q.bbox, confidence |-> scene.score,
                                 status |-> "tracking"])
                   /\ lastOp' = Op("highlight", c.id, decision,
                                   Args(q, current_frame, scene))
              ELSE /\ lastOp' = Op("highlight", 0, decision, Args(q, current_frame, scene))
                   /\ UNCHANGED <<trackers, nextTrackerId, tracked_objects>>
    /\ UNCHANGED <<app, results, primitive, current_frame>>
    /\ UNCHANGED <<msgVars, sessVars, noteVars, lifeVars>>
    /\ UNCHANGED stepVars

InitTrack ==
    /\ Constructed
    /\ TrackConstructed
    /\ app \in {"desktop", "api"}
    /\ impl = "v2"
    /\ recvLog = <<>>
    /\ current_input_transcription = <<>>
    /\ current_output_transcription = <<>>
    /\ emitted = <<>>
    /\ aiState = "idle"
    /\ toolReplies = <<>>
    /\ handlerLog = <<>>
    /\ recvAlive = TRUE
    /\ nextCallId = 1
    /\ audio_output_queue = <<>>

NextTrack ==
    \/ HighlightObject
    \/ TrackUpdate
    \/ RemoveTracker
    \/ ClearAllTrackers
    \/ UpdateFrame
    \/ HandleFunctionCall

SpecTrack == InitTrack /\ [][NextTrack]_vars

SpecClamp == InitTrack /\ [][NextClamp]_vars

----------------------------------------------------------------------------
(* Properties of the tracking engine *)

\* the step is an update_trackers call
IsUpdate == lastOp'.op = "update"

\* C11: once update_trackers has reported a tracker lost, every later
\* update_trackers call reports it lost with the same bbox, and does not ask the
\* primitive about it again.
C11_LostIsAbsorbing ==
    [][IsUpdate =>
        \A id \in DOMAIN trackers \cap DOMAIN results :
            results[id].status = "lost" =>
                /\ id \in DOMAIN results'
                /\ results'[id].status = "lost"
                /\ results'[id].bbox = results[id].bbox
                /\ primitive'[id] = "none"]_vars

\* the last update_trackers call skipped a tracker an earlier call had lost
C11_Witness ==
    /\ lastOp.op = "update"
    /\ \E id \in DOMAIN trackers \cap DOMAIN results :
          /\ results[id].status = "lost"
          /\ primitive[id] = "none"

\* C12: a tracker that update_trackers reports as tracking has a confidence of
\* at most 1.0 and not below 0.3.
C12_TrackingConfidenceBounds ==
    \A id \in DOMAIN results :
        results[id].status = "tracking" =>
            /\ results[id].confidence <= 100
            /\ results[id].confidence >= 30

\* a tracker is still reported tracking after penalties took it down to 0.4
C12_Witness ==
    \E id \in DOMAIN results :
        /\ results[id].status = "tracking"
        /\ results[id].confidence = 40

\* the normalized area w*h of a reported box lies outside [0.001, 0.9]
OutsideAreaRange(bbox) ==
    LET n == bbox.width.num * bbox.height.num
        d == bbox.width.den * bbox.height.den
    IN  n * 1000 < d \/ n * 10 > 9 * d

\* C13: on each successful primitive update the confidence goes down by 0.1
\* (not below 0.3) when the normalized area of the new box is outside
\* [0.001, 0.9], and up by 0.05 (not above 1.0) otherwise; so it never rises
\* over updates with out-of-range area.
C13_ConfidenceAdjustment ==
    [][IsUpdate =>
        \A id \in DOMAIN trackers :
            primitive'[id] \in {"same", "shrunk", "grown"} =>
                LET old == trackers[id].confidence
                    new == trackers'[id].confidence
                IN  /\ new = results'[id].confidence
                    /\ IF OutsideAreaRange(results'[id].bbox)
                       THEN new = (IF old - 10 < 30 THEN 30 ELSE old - 10) /\ new <= old
                       ELSE new = (IF old + 5 > 100 THEN 100 ELSE old + 5)]_vars

\* a penalty after a reward: 1.0 -> 0.9 -> 0.95 -> 0.85
C13_Witness ==
    \E id \in DOMAIN results :
        /\ primitive[id] \in {"shrunk", "grown"}
        /\ results[id].confidence = 85

\* C14: when the primitive reports failure for a tracking tracker,
\* update_trackers reports it with confidence 0, status lost and the bbox it had
\* before the call, whatever its confidence was; and no operation makes an
\* inactive tracker active again.
C14_PrimitiveFailureLoses ==
    [][/\ IsUpdate =>
            \A id \in DOMAIN trackers :
                primitive'[id] = "fail" =>
                    /\ results'[id].confidence = 0
                    /\ results'[id].status = "lost"
                    /\ results'[id].bbox = trackers[id].bbox
                    /\ ~trackers'[id].is_active
       /\ \A id \in DOMAIN trackers \cap DOMAIN trackers' :
            ~trackers[id].is_active => ~trackers'[id].is_active]_vars

\* the primitive failed on a tracker that earlier updates had moved
C14_Witness ==
    \E id \in DOMAIN trackers \cap DOMAIN results :
        /\ primitive[id] = "fail"
        /\ results[id].status = "lost"
        /\ trackers[id].bbox # trackers[id].initial_bbox

\* C15: update_trackers reports a tracker as tracking exactly when the primitive
\* succeeded and the adjusted confidence is strictly above 0.3; a tracker it
\* does not report as tracking is reported lost and is inactive after that call.
C15_TrackingIffConfident ==
    [][IsUpdate =>
        \A id \in DOMAIN trackers :
            /\ results'[id].status \in {"tracking", "lost"}
            /\ (results'[id].status = "tracking") <=>
                  (/\ primitive'[id] \in {"same", "shrunk", "grown"}
                   /\ trackers'[id].confidence > 30)
            /\ results'[id].status = "lost" => ~trackers'[id].is_active]_vars

\* the primitive succeeded and the penalty took the confidence to 0.3: lost
C15_Witness ==
    \E id \in DOMAIN trackers \cap DOMAIN results :
        /\ primitive[id] \in {"same", "shrunk", "grown"}
        /\ results[id].confidence = 30
        /\ results[id].status = "lost"
        /\ ~trackers[id].is_active

\* C16: update_trackers leaves the set of tracker ids as it is and returns one
\* entry for each tracker in the map, tracking or lost; the set of ids changes
\* only in a create (a highlight that is accepted), a remove or a remove-all.
C16_LostTrackersAreKept ==
    [][/\ IsUpdate =>
            /\ DOMAIN trackers' = DOMAIN trackers
            /\ DOMAIN results' = DOMAIN trackers'
       /\ DOMAIN trackers' # DOMAIN trackers =>
            lastOp'.op \in {"highlight", "remove", "clear"}]_vars

\* an update has just lost a tracker, which is still in the map and in the result
C16_Witness ==
    /\ lastOp.op = "update"
    /\ \E id \in DOMAIN trackers \cap DOMAIN results :
          /\ primitive[id] = "fail"
          /\ ~trackers[id].is_active
          /\ results[id].status = "lost"

InUnit(v) == ~Less(v, Zero) /\ ~Less(One, v)

SucceededIds ==
    {id \in DOMAIN trackers \cap DOMAIN results : primitive[id] \in {"same", "shrunk", "grown"}}

\* the box has every component in [0, 1] and lies inside the frame
InsideFrame(bbox) ==
    /\ InUnit(bbox.x) /\ InUnit(bbox.y) /\ InUnit(bbox.width) /\ InUnit(bbox.height)
    /\ ~Less(One, Plus(bbox.x, bbox.width))
    /\ ~Less(One, Plus(bbox.y, bbox.height))

\* C18 as stated: after a successful primitive update the bbox stored in the
\* tracker and the bbox reported have x, y, width, height in [0, 1] and
\* x + width <= 1, y + height <= 1.
C18_BboxInsideFrame ==
    \A id \in SucceededIds :
        InsideFrame(results[id].bbox) /\ InsideFrame(trackers[id].bbox)

\* |a - b| <= n/d
Close(a, b, n, d) ==
    LET diff == a.num * b.den - b.num * a.den
        dist == IF diff < 0 THEN 0 - diff ELSE diff
    IN  dist * d <= n * a.den * b.den

\* the tracker has not been updated since create_tracker
Fresh(t) == t.is_active /\ t.bbox = t.initial_bbox /\ t.confidence = 100

\* the first update of a tracker, the primitive returning the rectangle it was
\* initialised with, reports tracking with a confidence in (0, 1]
FirstUpdateTracks(id) ==
    /\ results'[id].status = "tracking"
    /\ results'[id].confidence > 0
    /\ results'[id].confidence <= 100

\* C19 as stated: create_tracker(frame, b, label) followed by one
\* update_trackers on the same frame, the primitive returning the box it was
\* initialised with, reports the tracker as tracking with a confidence in (0, 1]
\* and a bbox within 1e-3 of b in every component.
C19_RoundTripWithinThousandth ==
    [][IsUpdate =>
        \A id \in DOMAIN trackers :
            (Fresh(trackers[id]) /\ primitive'[id] = "same") =>
                LET b == trackers[id].initial_bbox
                    r == results'[id].bbox
                IN  /\ FirstUpdateTracks(id)
                    /\ Close(r.x, b.x, 1, 1000) /\ Close(r.y, b.y, 1, 1000)
                    /\ Close(r.width, b.width, 1, 1000)
                    /\ Close(r.height, b.height, 1, 1000)]_vars

\* C19, amended: the same round trip reports the tracker as tracking with a
\* confidence in (0, 1] and a bbox within one pixel of b in every component:
\* 1/width of the frame for x and width, 1/height of the frame for y and height.
C19_RoundTripWithinOnePixel ==
    [][IsUpdate =>
        \A id \in DOMAIN trackers :
            (Fresh(trackers[id]) /\ primitive'[id] = "same") =>
                LET b == trackers[id].initial_bbox
                    r == results'[id].bbox
                IN  /\ FirstUpdateTracks(id)
                    /\ Close(r.x, b.x, 1, FrameW) /\ Close(r.y, b.y, 1, FrameH)
                    /\ Close(r.width, b.width, 1, FrameW)
                    /\ Close(r.height, b.height, 1, FrameH)]_vars

\* the box {0.003, 0.5, 0.001, 0.5} came back from its first update, the
\* primitive having returned the rectangle it was given
C19_Witness ==
    \E id \in DOMAIN trackers \cap DOMAIN results :
        /\ primitive[id] = "same"
        /\ trackers[id].initial_bbox = NormBox(3, 500, 1, 500)
        /\ results[id].status = "tracking"
        /\ results[id].confidence = 90

\* C20: handling a highlight call creates a tracker, for the best match's bbox
\* and labelled with object_name, exactly when a frame is available, detection
\* found something, identification returned a match and its score is at least
\* 0.15; otherwise the tracker map and the tracked-object list stay as they were.
C20_HighlightAcceptance ==
    [][lastOp'.op = "highlight" =>
        LET a == lastOp'.args
            id == lastOp'.id
            accepted == a.frame /\ a.detections > 0 /\ a.matched /\ a.score >= 15
            match == CHOOSE q \in Queries : q.object_name = a.object_name
        IN  IF accepted
            THEN /\ id \notin DOMAIN trackers
                 /\ DOMAIN trackers' = DOMAIN trackers \cup {id}
                 /\ \A i \in DOMAIN trackers : trackers'[i] = trackers[i]
                 /\ trackers'[id].bbox = match.bbox
                 /\ trackers'[id].label = a.object_name
                 /\ trackers'[id].is_active
                 /\ app = "desktop" =>
                       /\ Len(tracked_objects') = Len(tracked_objects) + 1
                       /\ SubSeq(tracked_objects', 1, Len(tracked_objects)) = tracked_objects
                       /\ tracked_objects'[Len(tracked_objects')].tracker_id = id
                       /\ tracked_objects'[Len(tracked_objects')].label = a.object_name
            ELSE trackers' = trackers /\ tracked_objects' = tracked_objects]_vars

\* a match scoring exactly 0.15 was accepted in the desktop window
C20_Witness ==
    /\ lastOp.op = "highlight"
    /\ lastOp.ret = "created"
    /\ lastOp.args.score = 15
    /\ lastOp.id \in DOMAIN trackers
    /\ tracked_objects # <<>>

----------------------------------------------------------------------------
(* The AI state around a tool-call event (gemini_live_service_v2.py) *)

\* the tool-call event the v2 handler has just finished with, if any
LastToolEvent ==
    IF impl = "v2" /\ recvLog # <<>> /\ recvLog[Len(recvLog)].tool_call # <<>>
    THEN <<recvLog[Len(recvLog)]>>
    ELSE <<>>

\* C21 as stated: once the handler is done with a tool-call event, which put
\* the AI state to using_tool, the state is not left at using_tool, and the
\* listening notification that follows the event comes only after a tool
\* response was sent for each function call of the event.
C21_ToolStateReturnsToListening ==
    \A k \in DOMAIN LastToolEvent :
        /\ aiState # "using_tool"
        /\ \A j \in DOMAIN LastToolEvent[k].tool_call :
              RepliesTo(LastToolEvent[k].tool_call[j].id) # {}

----------------------------------------------------------------------------
(* Notifications of the session lifecycle *)

\* the statuses start() delivers when nothing went wrong
RoutineStatuses == {"initializing", "connecting", "connected"}

\* the on_status calls made by the step
NewStatuses == { statusLog'[i] : i \in (Len(statusLog) + 1)..Len(statusLog') }

\* C22 as stated: when the audio input device or the audio output device fails
\* to open during start(), start() delivers a status notification describing
\* the failure, leaves running true and still starts the session thread.
C22_DeviceFailureReported ==
    [][(starts' = starts + 1 /\ (input_stream' # "open" \/ output_stream' # "open"))
          => /\ running'
             /\ threadPc' = "connecting"
             /\ NewStatuses \ RoutineStatuses # {}]_vars

\* a status describing a failure of the connection was delivered
FailureReported == \E i \in DOMAIN statusLog : statusLog[i] = "error"

\* C23 as stated: once a write or a read on the connection has failed, or the
\* connection was refused or closed, all send and receive loops of the session
\* terminate and a status notification of the failure is delivered.
C23_TransportErrorEndsSession ==
    transportFailed ~> (LoopsExited /\ FailureReported)

----------------------------------------------------------------------------
(* Messages that break the protocol (gemini_bridge_client.py) *)

\* the message breaks the protocol: it does not decode, its type is unknown, or
\* a field its type needs is missing or null
Malformed(m) ==
    impl = "bridge" /\ (m.missing # {} \/ m \in MalformedMessages(m.callId))

\* C24 as stated: a malformed or unexpected inbound message is skipped; it
\* never terminates the receive loop, which stays ready for the next message.
C24_ProtocolErrorsSkipped ==
    (recvLog # <<>> /\ Malformed(recvLog[Len(recvLog)])) => recvAlive

\* C25: after start() followed by stop() on a v1 / v2 session, running is
\* false, the status notifications delivered include the initialisation and
\* the stop (so at least two), and an AI-state notification was delivered,
\* whether or not the connection succeeded.
C25_StartStopNotifications ==
    (HasVideoQueue /\ appPc = "stopped")
        => /\ ~running
           /\ Len(statusLog) >= 2
           /\ \E i, j \in DOMAIN statusLog :
                 i < j /\ statusLog[i] = "initializing" /\ statusLog[j] = "stopped"
           /\ aiState # "idle"

\* a v2 session stopped after its connection was refused
C25_Witness ==
    /\ impl = "v2"
    /\ appPc = "stopped"
    /\ threadPc = "ended"
    /\ FailureReported
    /\ statusLog[Len(statusLog)] = "stopped"

----------------------------------------------------------------------------
(* The active listing (tracker_service.py, GET /status of main.py) *)

\* the trackers of the map that no update has reported lost
NotReportedLost ==
    { id \in DOMAIN trackers : ~(id \in DOMAIN results /\ results[id].status = "lost") }

\* C26: after any sequence of create / update / remove operations,
\* get_active_tracker_ids returns, each once, exactly the ids of the trackers
\* that are in the map and have not been reported lost; a lost or removed
\* tracker is never listed.
C26_ActiveListing ==
    LET ids == GetActiveTrackerIds(trackers) IN
    /\ { ids[i] : i \in DOMAIN ids } = NotReportedLost
    /\ Len(ids) = Cardinality(NotReportedLost)

\* a tracker that an update reported lost is still in the map and not listed
C26_Witness ==
    /\ \E id \in DOMAIN trackers : id \in DOMAIN results /\ results[id].status = "lost"
    /\ lastOp.op = "update"
    /\ GetActiveTrackerIds(trackers) = <<>>

----------------------------------------------------------------------------
(* The three loops on one event loop *)

\* C27 as stated: while the session is running and the video frame queue is
\* empty, the send-audio loop can still take a queued audio frame and the
\* receive loop can still take an inbound message: the send-video loop's wait
\* for a frame leaves the event loop to them.
C27_NoStarvation ==
    (threadPc = "loops" /\ running /\ video_frame_queue = <<>>)
        => /\ (audioPc = "poll" /\ audio_input_queue # <<>>) => ENABLED AudioPoll
           /\ (recvPc = "waiting" /\ nInbound < MaxInbound) => ENABLED RecvMessage

----------------------------------------------------------------------------
(* One session object over several start() / stop() calls *)

\* the session threads and the playback workers that have not returned
LiveThreads == orphanThreads + (IF ThreadAlive THEN 1 ELSE 0)
LiveWorkers == orphanWorkers + (IF WorkerAlive THEN 1 ELSE 0)

\* C28 as stated: over any sequence of start() and stop() calls on a session
\* object, at most one session thread and at most one playback worker are
\* alive at any time.
C28_OneActiveSession == LiveThreads <= 1 /\ LiveWorkers <= 1

----------------------------------------------------------------------------
(* The playback worker against stop() *)

\* C29 as stated: under every interleaving of stop() with the playback worker,
\* the worker writes an audio buffer only to an output stream that stop() has
\* not stopped and closed.
C29_NoWriteAfterClose ==
    [][(workerPc = "write" /\ workerPc' = "poll") => output_stream = "open"]_vars

----------------------------------------------------------------------------
(* Tool calls one at a time *)

\* the function calls dispatched before the latest one
EarlierDispatches == 1..(Len(handlerLog) - 1)

\* C30 as stated: a tool call is dispatched to the highlight handler only after
\* the response to the previously dispatched tool call has been sent, within
\* one tool-call event and across events.
C30_ToolCallsSerialized ==
    \A k \in EarlierDispatches : RepliesTo(handlerLog[k].id) # {}

----------------------------------------------------------------------------
(* The notifications of start() against the connection *)

\* the session thread has not established a connection: it has not been
\* started, it is still connecting, or it ended without ever running its loops
NotConnected ==
    \/ threadPc \in {"none", "connecting"}
    \/ threadPc = "ended" /\ audioPc = "none"

\* C31 as stated: as long as the connection has not been established (the
\* attempt has not completed, or it failed), no listening notification and no
\* 'Connected' status has been emitted.
C31_ListeningOnceConnected ==
    NotConnected
        => /\ aiState # "listening"
           /\ \A i \in DOMAIN statusLog : statusLog[i] # "connected"

----------------------------------------------------------------------------
(* Turn completion against the text of the next turn *)

\* C32: whenever the handler is not inside a turn completion, the utterances
\* emitted so far are exactly those of the completed turns and the accumulators
\* hold exactly the text received since the last turn completion: no text of
\* the next turn was appended between the emission and the reset, none was
\* lost by the reset and none went into the previous turn's utterance.
C32_TurnCompletionAtomic ==
    turnPc = "idle"
        => /\ emitted = Expected(FALSE).utterances
           /\ current_input_transcription = Expected(FALSE).user
           /\ current_output_transcription = Expected(FALSE).model

\* a turn was completed and emitted, and text of the next turn is pending
C32_Witness ==
    /\ turnPc = "idle"
    /\ Len(recvLog) = 3
    /\ UserText(recvLog[1]) = <<"H", "i">>
    /\ IsTurnComplete(recvLog[2])
    /\ UserText(recvLog[3]) = <<" ", "t">>
    /\ emitted = << <<"USER", <<"H", "i">> >> >>
    /\ current_input_transcription = <<" ", "t">>

----------------------------------------------------------------------------
(* A stalled audio write *)

\* C33 as stated: every write of an audio frame in the send-audio loop is
\* bounded by a timeout, so a write in progress always ends and the loop goes
\* on, even when the remote peer never completes it.
C33_AudioWriteBounded ==
    (audioPc = "sending") ~> (audioPc # "sending")

----------------------------------------------------------------------------
(* The rate of the video path *)

\* C34 as stated: the send-video loop takes a frame for sending only when no
\* frame was sent before or one send interval has passed since the last one,
\* however fast frames are submitted.
C34_VideoSendRate ==
    [][(videoPc = "poll" /\ videoPc' = "sending") => videoInterval # "running"]_vars

----------------------------------------------------------------------------
(* stop() of the desktop session on idle queues *)

\* C35 as stated: stop() eventually returns, also when the consumer loops wait
\* on an empty queue and no further item or remote message arrives.
C35_StopReturnsOnIdleQueues ==
    (appPc = "stop_waiting" /\ ~running /\ threadPc = "loops") ~> (appPc = "stopped")

----------------------------------------------------------------------------
(* The capture callback *)

\* C36: in every reachable state, whatever the length of the audio input queue
\* and whether or not the send-audio loop still consumes, the push of the
\* capture callback returns at once with the frame queued: it never waits.
C36_CallbackNeverBlocks ==
    Put(audio_input_queue, nextAudio, AudioQueueMaxsize).result = "queued"

\* the callback has queued every frame of a running session whose connection
\* was refused, so that no loop consumes
C36_Witness ==
    /\ running
    /\ threadPc = "ended"
    /\ audioPc = "none"
    /\ Len(audio_input_queue) = MaxAudioFrames

----------------------------------------------------------------------------
(* What a new start() finds *)

\* C37 as stated: when start() follows a stop(), the new session begins with
\* both transcription accumulators empty and with no item in the audio input,
\* audio output and video queues.
C37_RestartFindsNothing ==
    [][(starts >= 1 /\ starts' = starts + 1)
          => /\ current_input_transcription' = <<>>
             /\ current_output_transcription' = <<>>
             /\ audio_input_queue' = <<>>
             /\ audio_output_queue' = <<>>
             /\ video_frame_queue' = <<>>]_vars

----------------------------------------------------------------------------
(* A highlight tool call of the remote agent, from the session's handler
   through the callback to the response *)

\* the callables of the repository that take the role of on_highlight_object:
\* the recording callbacks of test_gemini_v2.py and test_response_issue.py,
\* and the highlight pipeline of RHatMainWindow.handle_function_call
Callbacks == {"records", "pipeline"}

\* what the callback decides: the pipeline creates a tracker or returns without
\* one; neither callable raises on a rejection
CallbackDecision(callback, frame, scene) ==
    IF callback = "pipeline" THEN Decide(frame, scene) ELSE "recorded"

\* one highlightObject call handled by the session: the callback runs, then
\* the session writes its response
HighlightToolCall ==
    /\ impl \in {"v2", "bridge"}
    /\ nextCallId <= MaxInbound
    /\ \E q \in Queries, scene \in Scenes, callback \in Callbacks, o \in ToolOutcomes :
          LET decision == IF o.handlerRaises THEN "raised"
                          ELSE CallbackDecision(callback, current_frame, scene)
              c == CreateTrackerResult(trackers, nextTrackerId, q.bbox, q.object_name)
              st == IF impl = "v2"
                    THEN HighlightCall(HandlerState, [id |-> nextCallId], o)
                    ELSE BridgeToolCall(HandlerState,
                                        BridgeMsg("TOOL_CALL", "", <<>>, "",
                                                  "highlightObject", nextCallId), o)
          IN  /\ toolReplies' = st.replies
              /\ handlerLog' = st.hlog
              /\ recvAlive' = (recvAlive /\ ~st.raised)
              /\ IF decision = "created"
                 THEN /\ nextTrackerId <= MaxTrackers
                      /\ trackers' = c.trackers
                      /\ nextTrackerId' = nextTrackerId + 1
                      /\ tracked_objects' =
                            Append(tracked_objects,
                                   [tracker_id |-> c.id, label |-> q.object_name,
                                    bbox |-> q.bbox, confidence |-> scene.score,
                                    status |-> "tracking"])
                      /\ lastOp' = Op("highlight", c.id, decision,
                                      Args(q, current_frame, scene))
                 ELSE /\ lastOp' = Op("highlight", 0, decision,
                                      Args(q, current_frame, scene))
                      /\ UNCHANGED <<trackers, nextTrackerId, tracked_objects>>
    /\ nextCallId' = nextCallId + 1
    /\ UNCHANGED <<impl, recvLog, current_input_transcription, current_output_transcription,
                   emitted, aiState, audio_output_queue>>
    /\ UNCHANGED <<app, results, primitive, current_frame>>
    /\ UNCHANGED <<sessVars, noteVars, lifeVars, stepVars>>

NextTool == HighlightToolCall \/ UpdateFrame

SpecTool == InitMsg /\ [][NextTool]_vars

\* the responses written by the step that is being taken
NewReplies == { toolReplies'[i] : i \in (DOMAIN toolReplies') \ (DOMAIN toolReplies) }

\* C38 as stated: a highlight call is answered with the success result only if
\* a tracker was created for that call, and when detection or matching rejected
\* the request the result sent is an error text.
C38_TruthfulToolResult ==
    [][\A r \in NewReplies :
          /\ r.result = "success" => lastOp'.ret = "created"
          /\ lastOp'.ret \in {"no_frame", "no_detections", "no_match", "low_score"}
                => r.result = "error"]_vars

----------------------------------------------------------------------------
(* start() on a running session *)

\* C39: a call of start() on a session whose running flag is set changes
\* nothing: no thread, worker or stream is created and no status or AI-state
\* notification is emitted.
C39_StartIdempotentWhileRunning ==
    [][(running /\ startCalls' = startCalls + 1)
          => UNCHANGED <<msgVars, sessVars, trackVars, noteVars, lifeVars>>]_vars

\* start() was called again on a connected, running session
C39_Witness ==
    /\ startCalls >= 1
    /\ running
    /\ threadPc = "loops"
    /\ starts = 1

----------------------------------------------------------------------------
(* The pixel box handed to the tracker primitive *)

\* C40: for every box, also with components outside [0, 1], and every frame of
\* width w and height h, the pixel box handed to the primitive's init has
\* 0 <= x <= w - 1, 0 <= y <= h - 1, 1 <= width <= w - x and
\* 1 <= height <= h - y.
C40_PixelBoxClamped ==
    lastOp.op = "initialize" =>
        LET rect == lastOp.args.rect
            w == lastOp.args.w
            h == lastOp.args.h
        IN  /\ 0 <= rect.x /\ rect.x <= w - 1
            /\ 0 <= rect.y /\ rect.y <= h - 1
            /\ 1 <= rect.width /\ rect.width <= w - rect.x
            /\ 1 <= rect.height /\ rect.height <= h - rect.y

\* a box left of the frame and wider than it, and one past its lower edge with
\* a negative height: clamped to the whole width and to the last row
C40_Witness ==
    /\ lastOp.op = "initialize"
    /\ lastOp.args.w = MaxSide
    /\ lastOp.args.h = FrameH
    /\ lastOp.args.bbox.x.num < 0
    /\ lastOp.args.bbox.width.num > 2
    /\ lastOp.args.bbox.y.num > 2
    /\ lastOp.args.bbox.height.num < 0
    /\ lastOp.args.rect = [x |-> 0, y |-> FrameH - 1, width |-> MaxSide, height |-> 1]

====
